---- MODULE Spec2Model ----
(***************************************************************************)
(* Model of the SIM800L driver (src/sim800l.py).                           *)
(*                                                                         *)
(* The serial transport is a byte buffer `rx` (a string) filled by the     *)
(* modem; bytes the modem has produced but that have not reached the       *)
(* receive buffer yet wait in `pending`.  The driver is a call stack of    *)
(* labels: every blocking transport operation (write, readline, read) and  *)
(* every classification is one step, so that bytes can arrive between any  *)
(* two of them.                                                            *)
(***************************************************************************)
EXTENDS Integers, Sequences, FiniteSets, TLC

(***************************************************************************)
(* Bounds of the model                                                     *)
(***************************************************************************)
\* polling iterations before a monotonic deadline passes
PollLimit == 2
\* unsolicited notifications the modem emits in one behaviour
MaxUnsol == 1
\* consecutive calls of the bearer API in one behaviour
MaxCalls == 2
\* characters of a text given to the codec
MaxText == 3

(***************************************************************************)
(* Python values: None, bool, str, int, with Python's equality and truth   *)
(***************************************************************************)
None == [t |-> "None", s |-> "", n |-> 0]
PyBool(b) == [t |-> "bool", s |-> "", n |-> IF b THEN 1 ELSE 0]
PyStr(x) == [t |-> "str", s |-> x, n |-> 0]
PyInt(i) == [t |-> "int", s |-> "", n |-> i]
\* a datetime.datetime, kept as the text it was parsed from
PyDate(x) == [t |-> "datetime", s |-> x, n |-> 0]
\* the list [number, date, msg_time, text] returned by read_sms
PyRecord(number, date, msg_time, text) ==
  [t |-> "list", s |-> "", n |-> 0,
   number |-> number, date |-> date, msg_time |-> msg_time, text |-> text]
False == PyBool(FALSE)
True == PyBool(TRUE)
IsNum(v) == v.t \in {"bool", "int"}
\* Python ==: bool is a subclass of int, so False == 0 and True == 1
PyEq(a, b) == IF IsNum(a) /\ IsNum(b) THEN a.n = b.n ELSE a = b
\* Python truth value
Truthy(v) == CASE v.t = "None" -> FALSE
               [] v.t = "str" -> v.s # ""
               [] v.t = "datetime" -> TRUE
               [] v.t = "list" -> TRUE
               [] OTHER -> v.n # 0
\* `x is False`
IsFalse(v) == v = False

(***************************************************************************)
(* Strings                                                                 *)
(***************************************************************************)
Ch(s, i) == SubSeq(s, i, i)
WS == {" ", "\t", "\n", "\r"}
Digits == {"0", "1", "2", "3", "4", "5", "6", "7", "8", "9"}
Min(a, b) == IF a < b THEN a ELSE b
Max(a, b) == IF a > b THEN a ELSE b

RECURSIVE LStrip(_)
LStrip(s) == IF Len(s) > 0 /\ Ch(s, 1) \in WS THEN LStrip(SubSeq(s, 2, Len(s))) ELSE s
RECURSIVE RStrip(_)
RStrip(s) == IF Len(s) > 0 /\ Ch(s, Len(s)) \in WS THEN RStrip(SubSeq(s, 1, Len(s) - 1)) ELSE s
\* str.strip() / bytes.strip()
Strip(s) == RStrip(LStrip(s))

\* index of the first occurrence of the character c in s, 0 if none
FirstIdx(s, c) ==
  IF \E i \in 1..Len(s) : Ch(s, i) = c
    THEN CHOOSE i \in 1..Len(s) : Ch(s, i) = c /\ \A j \in 1..(i - 1) : Ch(s, j) # c
    ELSE 0

\* str.split(c)
RECURSIVE Split(_, _)
Split(s, c) ==
  LET i == FirstIdx(s, c) IN
    IF i = 0 THEN <<s>>
    ELSE <<SubSeq(s, 1, i - 1)>> \o Split(SubSeq(s, i + 1, Len(s)), c)

\* str.replace(c, "")
RECURSIVE Remove(_, _)
Remove(s, c) ==
  IF Len(s) = 0 THEN s
  ELSE (IF Ch(s, 1) = c THEN "" ELSE Ch(s, 1)) \o Remove(SubSeq(s, 2, Len(s)), c)

\* s[0:n]
Prefix(s, n) == SubSeq(s, 1, Min(n, Len(s)))
\* s[-n:]
Suffix(s, n) == SubSeq(s, Max(1, Len(s) - n + 1), Len(s))
\* s[:-n]
DropLast(s, n) == SubSeq(s, 1, Max(0, Len(s) - n))
StartsWith(s, p) == Len(s) >= Len(p) /\ SubSeq(s, 1, Len(p)) = p

\* str.isnumeric()
IsNumeric(s) == Len(s) > 0 /\ \A i \in 1..Len(s) : Ch(s, i) \in Digits
DigitVal(c) == CHOOSE d \in 0..9 : Ch("0123456789", d + 1) = c
\* int(s) for a numeric s
RECURSIVE ToInt(_)
ToInt(s) == IF Len(s) = 0 THEN 0
            ELSE 10 * ToInt(SubSeq(s, 1, Len(s) - 1)) + DigitVal(Ch(s, Len(s)))
\* int(s) accepts surrounding whitespace
IntOk(s) == IsNumeric(Strip(s))

(***************************************************************************)
(* Character codec.  Every byte used on the modelled channel lies in the   *)
(* range where the GSM 03.38 table coincides with ASCII, so the table      *)
(* lookup keeps the byte; convert_to_string then strips the text.          *)
(***************************************************************************)
GsmChar(c) == c
RECURSIVE GsmMap(_)
GsmMap(s) == IF Len(s) = 0 THEN s ELSE GsmChar(Ch(s, 1)) \o GsmMap(SubSeq(s, 2, Len(s)))
convert_to_string(buf) == Strip(GsmMap(buf))
convert_gsm(string) == GsmMap(string)

(***************************************************************************)
(* The codec over the whole table: a text is a sequence of characters, the *)
(* encoded form a sequence of byte values.  GsmTable lists the entries of  *)
(* the GSM 03.38 default alphabet and of its extension table (reached by   *)
(* the escape byte 27) for the characters of Alphabet.                     *)
(***************************************************************************)
Esc == 27
GsmTable ==
  {[c |-> "@", b |-> <<0>>],   [c |-> "$", b |-> <<2>>],
   [c |-> "\n", b |-> <<10>>], [c |-> "\r", b |-> <<13>>],
   [c |-> "_", b |-> <<17>>],  [c |-> " ", b |-> <<32>>],
   [c |-> "A", b |-> <<65>>],
   [c |-> "\f", b |-> <<Esc, 10>>], [c |-> "{", b |-> <<Esc, 40>>]}
\* the supported characters the model draws texts from
Alphabet == {e.c : e \in GsmTable}
\* what str.strip() removes at both ends, among the characters of the table
PyWhitespace == {" ", "\n", "\r", "\f"}

\* as GsmDecode, reading every byte as the ASCII character of the same value
GsmDecode_ascii(b) ==
  IF b = <<32>> THEN " " ELSE IF b = <<65>> THEN "A" ELSE IF b = <<10>> THEN "\n"
  ELSE IF b = <<13>> THEN "\r" ELSE "?"
\* the character of one table entry
GsmDecode(b) == (CHOOSE e \in GsmTable : e.b = b).c
GsmEncode(c) == (CHOOSE e \in GsmTable : e.c = c).b

\* string.encode("gsm03.38")
RECURSIVE gsm0338_encode(_)
gsm0338_encode(string) ==
  IF string = <<>> THEN <<>> ELSE GsmEncode(Head(string)) \o gsm0338_encode(Tail(string))

\* buf.decode('gsm03.38'): the escape byte and the byte behind it are one
\* character of the extension table
RECURSIVE gsm0338_decode(_)
gsm0338_decode(buf) ==
  IF buf = <<>> THEN <<>>
  ELSE IF Head(buf) = Esc /\ Len(buf) > 1
    THEN <<GsmDecode(SubSeq(buf, 1, 2))>> \o gsm0338_decode(SubSeq(buf, 3, Len(buf)))
    ELSE <<GsmDecode(<<Head(buf)>>)>> \o gsm0338_decode(Tail(buf))

\* str.strip() on a sequence of characters
RECURSIVE LStripText(_)
LStripText(t) == IF t # <<>> /\ Head(t) \in PyWhitespace THEN LStripText(Tail(t)) ELSE t
RECURSIVE RStripText(_)
RStripText(t) ==
  IF t # <<>> /\ t[Len(t)] \in PyWhitespace THEN RStripText(SubSeq(t, 1, Len(t) - 1)) ELSE t
StripText(t) == RStripText(LStripText(t))

\* a str and a bytes value of the codec
PyText(t) == [t |-> "str", s |-> "", n |-> 0, c |-> t]
PyBytes(b) == [t |-> "bytes", s |-> "", n |-> 0, b |-> b]
\* convert_gsm and convert_to_string on these values; what convert_gsm
\* produces holds no byte above 127, so the decoding never takes the
\* UnicodeError branch
ConvertGsm(string) == gsm0338_encode(string)
ConvertToString(buf) == StripText(gsm0338_decode(buf))

(***************************************************************************)
(* State                                                                   *)
(***************************************************************************)
VARIABLES
  rx,        \* bytes buffered on the serial port (self.ser), not read yet
  pending,   \* modem output still in flight: chunks not yet in rx
  bearer,    \* modem side: IP bound to bearer context 1, "" if none
  unsol,     \* unsolicited notifications emitted so far
  stack,     \* driver call stack: labels, innermost first
  phase,     \* "idle", "running", "returned" or "raised"
  op,        \* the top-level call being run and its arguments
  calls,     \* top-level calls started so far
  last,      \* the previous top-level call and how it ended
  ret,       \* value returned by the last driver function that returned
  sret,      \* tuple returned by the last check_incoming()
  exc,       \* exception that ended the call and the step that raised it
  tx,        \* what the current top-level call wrote to the port, in order
  msgid,     \* self._msgid
  savbuf,    \* self.savbuf
  no_carrier_action,  \* TRUE when a carrier-lost callback is registered
  msg_action,         \* TRUE when an incoming-SMS callback is registered
  cmd,       \* locals of command()
  cok,       \* locals of command_ok()
  gip,       \* locals of get_ip()
  cg,        \* locals of connect_gprs()
  ist,       \* locals of internet_sync_time()
  gd,        \* locals of get_date()
  ht,        \* locals of http()
  sms,       \* locals of the SMS operations
  fired      \* history: callback invocations and +CMTI classifications

vars == <<rx, pending, bearer, unsol, stack, phase, op, calls, last, last, ret, sret, exc,
          tx, msgid, savbuf, no_carrier_action, msg_action,
          cmd, cok, gip, cg, ist, gd, ht, sms, fired>>

Top == IF Len(stack) > 0 THEN Head(stack) ELSE ""

\* a Python tuple (kind, value) as returned by check_incoming
Tup(k, v) == [k |-> k, v |-> v]
NoTup == Tup("", None)
NoExc == [kind |-> "", at |-> ""]

\* initial values of the locals
Cmd0 == [cmdstr |-> "", lines |-> 1, msgtext |-> None, flush_input |-> TRUE,
         result |-> "", i |-> 0,
         \* history: what each readline() of the loop over the further lines gave
         read |-> <<>>]
Cok0 == [cmd |-> "", cd |-> FALSE, ce |-> FALSE, r |-> None, polls |-> 0]
Gip0 == [r |-> None]
Cg0 == [apn |-> None, ip_address |-> None,
        \* history: the first get_ip of the call has returned, and its result
        queried |-> FALSE, first_ip |-> None]
Ist0 == [keep |-> FALSE, polls |-> 0, retv |-> False,
         \* s once the wait for the +CNTP line is over
         s |-> NoTup]
Gd0 == [date_string |-> None]
Ht0 == [url |-> None, method |-> None, data |-> None, keep |-> FALSE,
        polls |-> 0, len_read |-> None, ret_data |-> "",
        \* history of the call, not read by the driver:
        bearer_ok |-> FALSE,   \* connect_gprs succeeded
        consumed |-> 0,        \* bytes taken from the port by the payload reads
        mismatch |-> FALSE,    \* +HTTPREAD announced another length than the action result
        act |-> NoTup,         \* last classification of the wait for the action result
        reply |-> "",          \* the first line of the reply to AT+HTTPREAD
        timed_out |-> FALSE]   \* the wait for the action result ended by its deadline
Op0 == [name |-> "", keep |-> FALSE, apn |-> None, url |-> None, method |-> None, data |-> None]
Sms0 == [index_id |-> 0, result |-> None,
         \* read_next_message
         all_msg |-> FALSE, rec |-> None, index |-> 0, data |-> None,
         \* history of read_next_message: what read_sms returned
         read |-> None]
Fired0 == [msg |-> 0,          \* invocations of the incoming-SMS callback
           no_carrier |-> 0,   \* invocations of the carrier-lost callback
           cmti |-> 0]         \* index of the last +CMTI line classified, 0 if none

\* SIM800L.__init__
Init ==
  /\ rx = ""
  /\ pending = <<>>
  /\ bearer \in {"", "10.0.0.1"}
  /\ unsol = 0
  /\ stack = <<>>
  /\ phase = "idle"
  /\ op = Op0
  /\ calls = 0
  /\ last = [name |-> "", phase |-> "idle", ret |-> None]
  /\ ret = None
  /\ sret = NoTup
  /\ exc = NoExc
  /\ tx = <<>>
  /\ msgid = 0
  /\ savbuf = None
  /\ no_carrier_action = FALSE
  /\ msg_action = FALSE
  /\ cmd = Cmd0
  /\ cok = Cok0
  /\ gip = Gip0
  /\ cg = Cg0
  /\ ist = Ist0
  /\ gd = Gd0
  /\ ht = Ht0
  /\ sms = Sms0
  /\ fired = Fired0

(***************************************************************************)
(* Control: call, return, raise                                            *)
(***************************************************************************)
\* replace the running frame by its continuation and enter a callee
Call(callee, cont) == stack' = <<callee, cont>> \o Tail(stack)
Goto(label) == stack' = <<label>> \o Tail(stack)
Return(v) ==
  /\ stack' = Tail(stack)
  /\ ret' = v
  /\ phase' = IF Len(stack) = 1 THEN "returned" ELSE phase
\* Frames whose code runs inside a try block, and the label at which the
\* handler (except or finally clause) of that block starts.
TryLabels == {"rnm_int", "rnm_read_done", "rnm_del_done", "rada_start", "rada_read_done"}
\* as Handler, with the finally clause of read_and_delete_all left out
Handler_no_finally(l) == IF l \in {"rada_start", "rada_read_done"} THEN "rada_end" ELSE "rnm_except"
Handler(l) == IF l \in {"rada_start", "rada_read_done"} THEN "rada_finally" ELSE "rnm_except"
\* position in the stack of the innermost frame inside a try block, 0 if none
TryFrame(st) ==
  IF \E i \in 1..Len(st) : st[i] \in TryLabels
    THEN CHOOSE i \in 1..Len(st) : st[i] \in TryLabels /\ \A j \in 1..(i - 1) : st[j] \notin TryLabels
    ELSE 0
\* an exception unwinds the stack to the innermost enclosing handler; when
\* there is none it ends the top-level call
Raise(kind) ==
  LET i == TryFrame(stack) IN
  /\ exc' = [kind |-> kind, at |-> Top]
  /\ IF i = 0
       THEN stack' = <<>> /\ phase' = "raised"
       ELSE stack' = <<Handler(stack[i])>> \o SubSeq(stack, i + 1, Len(stack)) /\ phase' = phase

(***************************************************************************)
(* Transport (pyserial)                                                    *)
(***************************************************************************)
\* as in_waiting, for a port that always reports buffered bytes
in_waiting_always == TRUE
\* ser.in_waiting
in_waiting == Len(rx) > 0
\* ser.readline(): up to and including the first line feed; without one the
\* read lasts until the port timeout and gives whatever is buffered
ReadLine(b) ==
  LET i == FirstIdx(b, "\n") IN
    IF i = 0 THEN [line |-> b, rest |-> ""]
    ELSE [line |-> SubSeq(b, 1, i), rest |-> SubSeq(b, i + 1, Len(b))]
\* ser.read(n): n bytes, or what is buffered when the port timeout expires
ReadN(b, n) == [data |-> Prefix(b, n), rest |-> SubSeq(b, Min(n, Len(b)) + 1, Len(b))]


(***************************************************************************)
(* The modem: what it may answer to what the driver writes.  It answers    *)
(* each write with one of the replies below or stays silent; the bytes     *)
(* reach the port later, chunk by chunk (Deliver).                         *)
(***************************************************************************)
IPs == {"10.0.0.1", "10.0.0.2"}
Payload == "abcdef"
CRLF == "\r\n"
\* a reply line, in one piece or with its leading line break sent apart
Ack(x) == {<<CRLF \o x \o CRLF>>, <<CRLF, x \o CRLF>>}
One(x) == <<CRLF \o x \o CRLF>>
Keep(b, chunkSets) == {[chunks |-> c, b |-> b] : c \in chunkSets}

CmdGetIp == "AT+SAPBR=2,1\n"
CmdClose == "AT+SAPBR=0,1"
CmdOpen(apn) == "AT+SAPBR=3,1,\"CONTYPE\",\"GPRS\";+SAPBR=3,1,\"APN\",\"" \o apn \o "\";+SAPBR=1,1"
CmdTerm == "AT+HTTPTERM"
CmdRead == "AT+HTTPREAD\n"
CmdCclk == "AT+CCLK?\n"
CmdNtp == "AT+CNTP"

\* a listing line of a stored draft at index 3 and of a received message at
\* index 4, the header of the reply to a read, and the text of the message
StoLine == "+CMGL: 3,\"STO UNSENT\",\"+391234\",,"
RecLine == "+CMGL: 4,\"REC UNREAD\",\"+391234\",,\"24/01/01,10:00:00+04\""
CmgrLine == "+CMGR: \"REC UNREAD\",\"+391234\",\"\",\"24/01/01,10:00:00+04\""
SmsText == "Hello"

SapbrLine(b) == IF b = "" THEN "+SAPBR: 1,3,\"0.0.0.0\"" ELSE "+SAPBR: 1,1,\"" \o b \o "\""

Modem(w, b) ==
  {[chunks |-> <<>>, b |-> b]} \cup
  (CASE w = CmdGetIp ->
          Keep(b, {One(SapbrLine(b)) \o One("OK"),
                   One("#SAPBR: 1,1,\"10.0.0.1\"") \o One("OK"),
                   One("ERROR")})
     [] w = CmdClose \o "\n" ->
          {[chunks |-> c, b |-> ""] : c \in Ack("OK")} \cup Keep(b, {One("ERROR")})
     [] StartsWith(w, "AT+SAPBR=3,1") ->
          {[chunks |-> One("OK"), b |-> i] : i \in (IF b = "" THEN IPs ELSE {b})}
          \cup Keep(b, {One("ERROR")})
     [] StartsWith(w, "AT+HTTPINIT") -> Keep(b, Ack("OK") \cup {One("ERROR")})
     [] StartsWith(w, CmdTerm) -> Keep(b, {One("OK"), One("ERROR")})
     [] StartsWith(w, "AT+HTTPDATA") -> Keep(b, {One("DOWNLOAD"), One("ERROR")})
     [] w = Payload \o "\n" -> Keep(b, {One("OK")})
     [] w = "AT+HTTPACTION=0\n" ->
          Keep(b, {One("OK") \o One("+HTTPACTION: 0,200,6"),
                   One("OK") \o One("+HTTPACTION: 0,404,0"),
                   One("OK") \o One("+HTTPACTION: 0,200,"),
                   One("ERROR")})
     [] w = "AT+HTTPACTION=1\n" ->
          Keep(b, {One("OK") \o One("+HTTPACTION: 1,200,6"),
                   One("OK") \o One("+HTTPACTION: 1,500,0")})
     [] w = CmdRead ->
          Keep(b, {<<CRLF \o "+HTTPREAD: 6" \o CRLF, Payload, CRLF \o "OK" \o CRLF>>,
                   <<CRLF \o "+HTTPREAD: 6" \o CRLF, "abcde", "f" \o CRLF \o "OK" \o CRLF>>,
                   <<CRLF \o "+HTTPREAD: 4" \o CRLF, "abcd", CRLF \o "OK" \o CRLF>>,
                   One("+HTTPREAD: 0") \o One("OK"),
                   One("OK")})
     [] StartsWith(w, "AT+CNTP=") -> Keep(b, {One("OK"), One("ERROR")})
     [] w = CmdNtp \o "\n" ->
          Keep(b, {One("OK") \o One("+CNTP: 1"), One("OK") \o One("+CNTP: 61")})
     [] w = CmdCclk ->
          Keep(b, {One("+CCLK: \"24/01/01,10:00:00+04\"") \o One("OK")})
     [] StartsWith(w, "AT+CMGS=") ->
          Keep(b, {<<CRLF \o "> ", CRLF \o "+CMGS: 12" \o CRLF, CRLF \o "OK" \o CRLF>>,
                   <<CRLF \o "> ", CRLF \o "+CUSD: 0" \o CRLF, CRLF \o "OK" \o CRLF>>,
                   <<CRLF \o "> ", CRLF \o "+CMS ERROR: 500" \o CRLF>>,
                   <<CRLF \o "> ", CRLF \o "RING" \o CRLF, CRLF \o "+CMGS: 12" \o CRLF>>,
                   <<CRLF \o "> ">>,
                   One("+CMGS: 12") \o One("OK"),
                   One("ERROR")})
     [] StartsWith(w, "AT+CMGL=") ->
          Keep(b, {One("OK"),
                   <<CRLF \o StoLine \o CRLF \o "draft" \o CRLF, CRLF \o "OK" \o CRLF>>,
                   <<CRLF \o RecLine \o CRLF \o SmsText \o CRLF, CRLF \o "OK" \o CRLF>>,
                   One("ERROR")})
     [] StartsWith(w, "AT+CMGR=") ->
          Keep(b, {<<CRLF \o CmgrLine \o CRLF \o SmsText \o CRLF, CRLF \o "OK" \o CRLF>>,
                   <<CRLF \o CmgrLine \o CRLF \o SmsText \o CRLF,
                     CRLF \o "+CMTI: \"SM\",5" \o CRLF, CRLF \o "OK" \o CRLF>>,
                   <<CRLF \o SubSeq(CmgrLine, 1, 24),
                     SubSeq(CmgrLine, 25, Len(CmgrLine)) \o CRLF \o SmsText \o CRLF
                       \o CRLF \o "OK" \o CRLF>>,
                   One("OK"),
                   One("ERROR")})
     [] StartsWith(w, "AT+CMGD=") -> Keep(b, {One("OK"), One("ERROR")})
     [] StartsWith(w, "AT+CMGDA=") -> Keep(b, {One("OK"), One("ERROR")})
     [] OTHER -> {})

\* all the chunks of a sequence, as one byte string
RECURSIVE Flatten(_)
Flatten(q) == IF q = <<>> THEN "" ELSE Head(q) \o Flatten(Tail(q))

\* The driver writes w (ser.write) and the modem decides on its answer.  What
\* the modem emitted before has reached the port by then: its output is late
\* by less than the time to the driver's next write.
Write(w) ==
  /\ tx' = Append(tx, w)
  /\ \E m \in Modem(w, bearer) :
       /\ pending' = m.chunks
       /\ bearer' = m.b

\* The driver writes a command and the text of a message right behind it;
\* the modem's answer to the pair is the one it gives to the command.
WriteText(w, text) ==
  /\ tx' = tx \o <<w, text>>
  /\ \E m \in Modem(w, bearer) :
       /\ pending' = m.chunks
       /\ bearer' = m.b

\* Bytes arrive while the driver is blocked in a read or about to poll, and
\* between calls.  The driver's other steps take no time, and what arrives
\* just before a write is handled by the write itself (see Write).
IOLabels == {"cmd_read1", "cmd_read2", "cmd_more", "ci", "ht_read"}
ModemTurn == phase # "running" \/ Top \in IOLabels

\* bytes in flight reach the receive buffer of the port
Deliver ==
  /\ ModemTurn
  /\ pending # <<>>
  /\ rx' = rx \o Head(pending)
  /\ pending' = Tail(pending)
  /\ UNCHANGED <<bearer, unsol, stack, phase, op, calls, last, ret, sret, exc, tx,
                 msgid, savbuf, no_carrier_action, msg_action,
                 cmd, cok, gip, cg, ist, gd, ht, sms, fired>>

UnsolLines == {"+CMTI: \"SM\",3", "RING"}
\* A notification of the kinds U reaches the port unasked.  One that arrives
\* behind unread bytes is read after them, exactly as one that arrives once
\* they are read: only the second order is enumerated.
Notify(U) ==
  /\ ModemTurn
  /\ unsol < MaxUnsol
  /\ rx = ""
  /\ \E u \in U : rx' = CRLF \o u \o CRLF
  /\ unsol' = unsol + 1
  /\ UNCHANGED <<pending, bearer, stack, phase, op, calls, last, ret, sret, exc, tx,
                 msgid, savbuf, no_carrier_action, msg_action,
                 cmd, cok, gip, cg, ist, gd, ht, sms, fired>>
\* a new message is stored or a call comes in
Unsolicited == Notify(UnsolLines)
\* a call comes in
Ringing == Notify({"RING"})


(***************************************************************************)
(* command(): the transaction engine                                       *)
(***************************************************************************)
\* as Flushed, for an engine that never drains the port
Flushed_never(b, flush_input) == b
\* `while self.ser.in_waiting and flush_input: self.ser.readline()`
Flushed(b, flush_input) == IF flush_input THEN "" ELSE b

\* the byte that ends the text of a message (0x1A), shown as a form feed
CtrlZ == "\f"

\* flush, write the command and, for a message, its text; lines == 0 returns
\* at once
command_write ==
  /\ Top = "cmd_write"
  /\ rx' = Flushed(rx \o Flatten(pending), cmd.flush_input)
  /\ IF cmd.lines # 0 /\ Truthy(cmd.msgtext)
       THEN WriteText(convert_gsm(cmd.cmdstr), convert_gsm(cmd.msgtext.s) \o CtrlZ)
       ELSE Write(convert_gsm(cmd.cmdstr))
  /\ IF cmd.lines = 0
       THEN Return(None)
       ELSE Goto("cmd_read1") /\ UNCHANGED <<ret, phase>>
  /\ UNCHANGED <<unsol, op, calls, last, sret, exc, msgid, savbuf,
                 no_carrier_action, msg_action, cmd, cok, gip, cg, ist, gd, ht, sms, fired>>

\* the primary result of a transaction whose first line is buf
command_result(buf) == PyStr(convert_to_string(buf))

\* as savbuf_fresh, for an engine that goes on appending to the saved buffer
savbuf_kept(sb) == IF sb.t = "str" THEN sb ELSE PyStr("")
\* `self.savbuf = ''`
savbuf_fresh(sb) == PyStr("")

\* the first line is there: with lines > 1 the saved buffer is emptied and the
\* following lines are read, otherwise the result is returned
command_first(buf) ==
  IF cmd.lines > 1
    THEN /\ cmd' = [cmd EXCEPT !.result = command_result(buf).s, !.i = 0]
         /\ savbuf' = savbuf_fresh(savbuf)
         /\ Goto("cmd_more")
         /\ UNCHANGED <<ret, phase>>
    ELSE /\ Return(command_result(buf))
         /\ UNCHANGED <<cmd, savbuf>>

\* `buf = self.ser.readline().strip()`
command_read1 ==
  /\ Top = "cmd_read1"
  /\ LET rl == ReadLine(rx)
         buf == Strip(rl.line)
     IN /\ rx' = rl.rest
        /\ IF buf = ""
             THEN Goto("cmd_read2") /\ UNCHANGED <<ret, phase, cmd, savbuf>>
             ELSE command_first(buf)
  /\ UNCHANGED <<pending, bearer, unsol, op, calls, last, sret, exc, tx, msgid,
                 no_carrier_action, msg_action, cok, gip, cg, ist, gd, ht, sms, fired>>

\* `if not buf: buf = self.ser.readline()`, `if not buf: return None`
command_read2 ==
  /\ Top = "cmd_read2"
  /\ LET rl == ReadLine(rx)
         buf == rl.line
     IN /\ rx' = rl.rest
        /\ IF buf = ""
             THEN Return(None) /\ UNCHANGED <<cmd, savbuf>>
             ELSE command_first(buf)
  /\ UNCHANGED <<pending, bearer, unsol, op, calls, last, sret, exc, tx, msgid,
                 no_carrier_action, msg_action, cok, gip, cg, ist, gd, ht, sms, fired>>

\* as command_saves, keeping the closing OK and the storage notifications
command_saves_nonempty(buf) == buf # ""
\* a line of a multi-line reply that is kept in the saved buffer
command_saves(buf) == buf # "" /\ buf # "OK" /\ ~StartsWith(buf, "+CMTI: \"SM\",")

\* `for i in range(lines - 1)`: one more line is read; an empty read ends the
\* transaction
command_more ==
  /\ Top = "cmd_more"
  /\ IF cmd.i >= cmd.lines - 1
       THEN /\ Return(PyStr(cmd.result))
            /\ UNCHANGED <<rx, cmd, savbuf>>
       ELSE LET rl == ReadLine(rx)
                buf == convert_to_string(rl.line)
            IN /\ rx' = rl.rest
               /\ IF rl.line = ""
                    THEN /\ Return(PyStr(cmd.result))
                         /\ cmd' = [cmd EXCEPT !.read = Append(@, rl.line)]
                         /\ UNCHANGED savbuf
                    ELSE /\ cmd' = [cmd EXCEPT !.i = @ + 1, !.read = Append(@, rl.line)]
                         /\ savbuf' = IF command_saves(buf)
                                        THEN PyStr(savbuf.s \o buf \o "\n")
                                        ELSE savbuf
                         /\ UNCHANGED <<stack, ret, phase>>
  /\ UNCHANGED <<pending, bearer, unsol, op, calls, last, sret, exc, tx, msgid,
                 no_carrier_action, msg_action, cok, gip, cg, ist, gd, ht, sms, fired>>


(***************************************************************************)
(* check_incoming(): the notification classifier                           *)
(***************************************************************************)
\* the line check_incoming classifies: the first buffered line, skipping
\* blank lines while more bytes are buffered
RECURSIVE IncomingLine(_)
IncomingLine(b) ==
  LET rl == ReadLine(b)
      buf == convert_to_string(rl.line)
  IN IF Strip(buf) = "" /\ Len(rl.rest) > 0
       THEN IncomingLine(rl.rest)
       ELSE [buf |-> buf, rest |-> rl.rest]

\* as cmti_msgid, with the counter left as it was
cmti_msgid_kept(field, mid) == mid
\* `self._msgid = int(params[1])`
cmti_msgid(field, mid) == ToInt(Strip(field))

\* classification of a decoded, non-empty line: the tuple returned, the
\* exception raised instead ("" if none) and the new message index
Classify(buf, mid, ncb) ==
  LET params == Split(buf, ",")
      p0 == params[1]
      out(k, v) == [s |-> Tup(k, v), exc |-> "", msgid |-> mid]
      fail(e) == [s |-> NoTup, exc |-> e, msgid |-> mid]
      action(kind) ==
        IF Len(params) < 2 THEN fail("IndexError")
        ELSE IF (kind = "HTTPACTION_PUT" /\ params[2] # "200")
                \/ (kind = "HTTPACTION_GET" /\ params[2] \notin {"200", "301"})
          THEN out(kind, False)
        ELSE IF Len(params) < 3 THEN fail("IndexError")
        ELSE IF ~IsNumeric(Strip(params[3])) THEN out(kind, False)
        ELSE out(kind, PyInt(ToInt(Strip(params[3]))))
  IN CASE Prefix(p0, 14) = "+HTTPACTION: 1" -> action("HTTPACTION_PUT")
       [] Prefix(p0, 14) = "+HTTPACTION: 0" -> action("HTTPACTION_GET")
       [] Prefix(p0, 5) = "+CMTI" ->
            IF Len(params) < 2 THEN fail("IndexError")
            ELSE IF ~IntOk(params[2]) THEN fail("ValueError")
            ELSE [s |-> Tup("CMTI", PyInt(cmti_msgid(params[2], mid))), exc |-> "",
                  msgid |-> cmti_msgid(params[2], mid)]
       [] p0 = "NO CARRIER" ->
            IF ncb THEN out("NOCARRIER", None) ELSE fail("TypeError")
       [] p0 = "RING" \/ Prefix(p0, 5) = "+CLIP" -> out("RING", None)
       [] Strip(buf) = "OK" -> out("OK", None)
       [] Strip(buf) = "DOWNLOAD" -> out("DOWNLOAD", None)
       [] OTHER -> out("GENERIC", PyStr(buf))

\* the callbacks a classification invokes, and the +CMTI index it carried
Invoked(c, f, mcb) ==
  [msg |-> IF c.s.k = "CMTI" /\ mcb THEN f.msg + 1 ELSE f.msg,
   no_carrier |-> IF c.s.k = "NOCARRIER" THEN f.no_carrier + 1 ELSE f.no_carrier,
   cmti |-> IF c.s.k = "CMTI" THEN c.s.v.n ELSE f.cmti]

check_incoming ==
  /\ Top = "ci"
  /\ IF ~in_waiting
       THEN /\ sret' = Tup("GENERIC", None)
            /\ Return(None)
            /\ UNCHANGED <<rx, msgid, exc, fired>>
       ELSE LET il == IncomingLine(rx) IN
            /\ rx' = il.rest
            /\ IF il.buf = ""
                 THEN /\ sret' = Tup("GENERIC", PyStr(""))
                      /\ Return(None)
                      /\ UNCHANGED <<msgid, exc, fired>>
                 ELSE LET c == Classify(il.buf, msgid, no_carrier_action) IN
                      IF c.exc # ""
                        THEN Raise(c.exc) /\ UNCHANGED <<sret, ret, msgid, fired>>
                        ELSE /\ sret' = c.s
                             /\ msgid' = c.msgid
                             /\ fired' = Invoked(c, fired, msg_action)
                             /\ Return(None)
                             /\ UNCHANGED exc
  /\ UNCHANGED <<pending, bearer, unsol, op, calls, last, tx, savbuf,
                 no_carrier_action, msg_action, cmd, cok, gip, cg, ist, gd, ht, sms>>

IsOK(s) == s = Tup("OK", None)

(***************************************************************************)
(* command_ok(): the confirmation protocol                                 *)
(***************************************************************************)
\* arguments of a command_ok call made with cmd c
CokArgs(c, cd, ce) == [cmd |-> c, cd |-> cd, ce |-> ce, r |-> None, polls |-> 0]
CmdArgs(c, lines) == [Cmd0 EXCEPT !.cmdstr = c, !.lines = lines]

\* the polling loop goes on: nothing classified yet and the deadline not passed
command_ok_waiting(s, polls) == s.k = "GENERIC" /\ ~Truthy(s.v) /\ polls < PollLimit

\* value returned once polling stopped with the classification s
command_ok_polled(s, cd, ce) ==
  IF IsOK(s) THEN True
  ELSE IF cd /\ s = Tup("DOWNLOAD", None) THEN PyStr("DOWNLOAD")
  ELSE IF ce /\ s = Tup("ERROR", None) THEN PyStr("ERROR")
  ELSE False

\* `r.strip()` raises when command() returned None
command_ok_raises(r) == r = None

command_ok ==
  \/ /\ Top = "cok_start"
     /\ cmd' = CmdArgs(cok.cmd \o "\n", 1)
     /\ Call("cmd_write", "cok_r")
     /\ UNCHANGED <<rx, pending, bearer, unsol, phase, op, calls, last, ret, sret, exc, tx,
                    msgid, savbuf, no_carrier_action, msg_action, cok, gip, cg, ist, gd, ht, sms, fired>>
  \/ /\ Top = "cok_r"
     /\ IF command_ok_raises(ret)
          THEN Raise("AttributeError") /\ UNCHANGED <<ret, cok>>
          ELSE LET rs == Strip(ret.s) IN
               IF rs = "OK" THEN Return(True) /\ UNCHANGED <<exc, cok>>
               ELSE IF cok.cd /\ rs = "DOWNLOAD"
                 THEN Return(PyStr("DOWNLOAD")) /\ UNCHANGED <<exc, cok>>
               ELSE IF cok.ce /\ rs = "ERROR"
                 THEN Return(PyStr("ERROR")) /\ UNCHANGED <<exc, cok>>
               ELSE IF ~Truthy(ret)
                 THEN /\ cok' = [cok EXCEPT !.r = ret, !.polls = 0]
                      /\ Call("ci", "cok_poll")
                      /\ UNCHANGED <<ret, phase, exc>>
               ELSE Return(False) /\ UNCHANGED <<exc, cok>>
     /\ UNCHANGED <<rx, pending, bearer, unsol, op, calls, last, sret, tx,
                    msgid, savbuf, no_carrier_action, msg_action, cmd, gip, cg, ist, gd, ht, sms, fired>>
  \/ /\ Top = "cok_poll"
     /\ IF command_ok_waiting(sret, cok.polls)
          THEN \* time.sleep(0.1); s = self.check_incoming()
               /\ cok' = [cok EXCEPT !.polls = @ + 1]
               /\ Call("ci", "cok_poll")
               /\ UNCHANGED <<ret, phase>>
          ELSE /\ Return(command_ok_polled(sret, cok.cd, cok.ce))
               /\ UNCHANGED cok
     /\ UNCHANGED <<rx, pending, bearer, unsol, op, calls, last, sret, exc, tx,
                    msgid, savbuf, no_carrier_action, msg_action, cmd, gip, cg, ist, gd, ht, sms, fired>>

close_bearer_never(keep_session) == FALSE
\* `if not keep_session:` the bearer is closed before the call returns
close_bearer(keep_session) == ~keep_session

\* disconnect_gprs(): command_ok('AT+SAPBR=0,1')
disconnect_gprs ==
  /\ Top = "dg_start"
  /\ cok' = CokArgs(CmdClose, FALSE, FALSE)
  /\ Goto("cok_start")
  /\ UNCHANGED <<rx, pending, bearer, unsol, phase, op, calls, last, ret, sret, exc, tx,
                 msgid, savbuf, no_carrier_action, msg_action, cmd, gip, cg, ist, gd, ht, sms, fired>>


(***************************************************************************)
(* get_ip(), connect_gprs()                                                *)
(***************************************************************************)
\* as get_ip_parse, with a missing +SAPBR tag reported as False
get_ip_parse_strict(r) ==
  IF r = None THEN [v |-> None, exc |-> "AttributeError"]
  ELSE LET r1 == Split(r.s, ",")
           r2 == Split(r1[1], ":")
       IN IF Len(r1) < 3 THEN [v |-> None, exc |-> "IndexError"]
          ELSE IF Strip(r2[1]) # "+SAPBR" THEN [v |-> False, exc |-> ""]
          ELSE IF Len(r2) < 2 THEN [v |-> None, exc |-> "IndexError"]
          ELSE IF Strip(r2[2]) = "1" /\ Strip(r1[2]) = "1"
            THEN [v |-> PyStr(Remove(r1[3], "\"")), exc |-> ""]
          ELSE [v |-> None, exc |-> ""]

\* get_ip once OK was classified: parse the reply r of AT+SAPBR=2,1
get_ip_parse(r) ==
  IF r = None THEN [v |-> None, exc |-> "AttributeError"]
  ELSE LET r1 == Split(r.s, ",")
           r2 == Split(r1[1], ":")
       IN IF Len(r1) < 3 THEN [v |-> None, exc |-> "IndexError"]
          ELSE IF Strip(r2[1]) # "+SAPBR" THEN [v |-> None, exc |-> ""]
          ELSE IF Len(r2) < 2 THEN [v |-> None, exc |-> "IndexError"]
          ELSE IF Strip(r2[2]) = "1" /\ Strip(r1[2]) = "1"
            THEN [v |-> PyStr(Remove(r1[3], "\"")), exc |-> ""]
          ELSE [v |-> None, exc |-> ""]

get_ip ==
  \/ /\ Top = "gip_start"
     /\ cmd' = CmdArgs(CmdGetIp, 1)
     /\ Call("cmd_write", "gip_r")
     /\ UNCHANGED <<rx, pending, bearer, unsol, phase, op, calls, last, ret, sret, exc, tx,
                    msgid, savbuf, no_carrier_action, msg_action, cok, gip, cg, ist, gd, ht, sms, fired>>
  \/ /\ Top = "gip_r"
     /\ gip' = [r |-> ret]
     /\ Call("ci", "gip_s")
     /\ UNCHANGED <<rx, pending, bearer, unsol, phase, op, calls, last, ret, sret, exc, tx,
                    msgid, savbuf, no_carrier_action, msg_action, cmd, cok, cg, ist, gd, ht, sms, fired>>
  \/ /\ Top = "gip_s"
     /\ IF ~IsOK(sret)
          THEN Return(False) /\ UNCHANGED exc
          ELSE LET g == get_ip_parse(gip.r) IN
               IF g.exc # "" THEN Raise(g.exc) /\ UNCHANGED ret
               ELSE Return(g.v) /\ UNCHANGED exc
     /\ UNCHANGED <<rx, pending, bearer, unsol, op, calls, last, sret, tx,
                    msgid, savbuf, no_carrier_action, msg_action, cmd, cok, gip, cg, ist, gd, ht, sms, fired>>

connect_gprs_reopen(ip_address) == FALSE
\* `if ip_address:` the bearer already has an IP, which is reused
connect_gprs_reuse(ip_address) == Truthy(ip_address)

connect_gprs ==
  \/ /\ Top = "cg_start"
     /\ IF cg.apn = None
          THEN Return(False)
          ELSE Call("gip_start", "cg_ip1") /\ UNCHANGED <<ret, phase>>
     /\ UNCHANGED <<rx, pending, bearer, unsol, op, calls, last, sret, exc, tx,
                    msgid, savbuf, no_carrier_action, msg_action, cmd, cok, gip, cg, ist, gd, ht, sms, fired>>
  \/ /\ Top = "cg_ip1"
     /\ cg' = [cg EXCEPT !.ip_address = ret, !.queried = TRUE, !.first_ip = ret]
     /\ IF IsFalse(ret)
          THEN Return(False) /\ UNCHANGED cok
          ELSE IF connect_gprs_reuse(ret)
            THEN Return(ret) /\ UNCHANGED cok
            ELSE /\ cok' = CokArgs(CmdOpen(cg.apn.s), FALSE, TRUE)
                 /\ Call("cok_start", "cg_r")
                 /\ UNCHANGED <<ret, phase>>
     /\ UNCHANGED <<rx, pending, bearer, unsol, op, calls, last, sret, exc, tx,
                    msgid, savbuf, no_carrier_action, msg_action, cmd, gip, ist, gd, ht, sms, fired>>
  \/ /\ Top = "cg_r"
     /\ IF PyEq(ret, PyStr("ERROR")) \/ ~Truthy(ret)
          THEN Return(False)
          ELSE Call("gip_start", "cg_ip2") /\ UNCHANGED <<ret, phase>>
     /\ UNCHANGED <<rx, pending, bearer, unsol, op, calls, last, sret, exc, tx,
                    msgid, savbuf, no_carrier_action, msg_action, cmd, cok, gip, cg, ist, gd, ht, sms, fired>>
  \/ /\ Top = "cg_ip2"
     /\ cg' = [cg EXCEPT !.ip_address = ret]
     /\ IF ~Truthy(ret) THEN Return(False) ELSE Return(ret)
     /\ UNCHANGED <<rx, pending, bearer, unsol, op, calls, last, sret, exc, tx,
                    msgid, savbuf, no_carrier_action, msg_action, cmd, cok, gip, ist, gd, ht, sms, fired>>

(***************************************************************************)
(* get_date(), internet_sync_time()                                        *)
(***************************************************************************)
\* the text matched by (\d*/\d*/\d*,\d*:\d*:\d*) after the first quote and
\* accepted by strptime('%y/%m/%d,%H:%M:%S'): two digits per field; any
\* other reply makes strptime raise ValueError
DateShape == <<"d", "d", "/", "d", "d", "/", "d", "d", ",", "d", "d", ":", "d", "d", ":", "d", "d">>
get_date_parse(ds) ==
  IF ds = None THEN [v |-> None, exc |-> "TypeError"]
  ELSE LET q == FirstIdx(ds.s, "\"")
           d == SubSeq(ds.s, q + 1, q + 17)
       IN IF q > 0 /\ Len(ds.s) >= q + 17
             /\ \A i \in 1..17 : IF DateShape[i] = "d" THEN Ch(d, i) \in Digits
                                 ELSE Ch(d, i) = DateShape[i]
            THEN [v |-> PyDate(d), exc |-> ""]
            ELSE [v |-> None, exc |-> "ValueError"]

get_date ==
  \/ /\ Top = "gd_start"
     /\ cmd' = CmdArgs(CmdCclk, 1)
     /\ Call("cmd_write", "gd_r")
     /\ UNCHANGED <<rx, pending, bearer, unsol, phase, op, calls, last, ret, sret, exc, tx,
                    msgid, savbuf, no_carrier_action, msg_action, cok, gip, cg, ist, gd, ht, sms, fired>>
  \/ /\ Top = "gd_r"
     /\ gd' = [date_string |-> ret]
     /\ Call("ci", "gd_s")
     /\ UNCHANGED <<rx, pending, bearer, unsol, phase, op, calls, last, ret, sret, exc, tx,
                    msgid, savbuf, no_carrier_action, msg_action, cmd, cok, gip, cg, ist, ht, sms, fired>>
  \/ /\ Top = "gd_s"
     /\ LET g == get_date_parse(gd.date_string) IN
          IF g.exc # "" THEN Raise(g.exc) /\ UNCHANGED ret
          ELSE Return(g.v) /\ UNCHANGED exc
     /\ gd' = Gd0
     /\ UNCHANGED <<rx, pending, bearer, unsol, op, calls, last, sret, tx,
                    msgid, savbuf, no_carrier_action, msg_action, cmd, cok, gip, cg, ist, ht, sms, fired>>

CmdNtpServer == "AT+CNTP=\"193.204.114.232\",4"

\* a Generic line beginning with '+CNTP: '
IsCntp(s) == s.k = "GENERIC" /\ Truthy(s.v) /\ StartsWith(s.v.s, "+CNTP: ")
\* the 'generic error' branch taken after the wait
sync_generic_error(s) ==
  s.k # "GENERIC" \/ (s.k = "GENERIC" /\ Truthy(s.v) /\ ~StartsWith(s.v.s, "+CNTP: "))

\* as sync_successful, for any result code
sync_successful_any(s) == TRUE
\* `elif s[1] == '+CNTP: 1'`
sync_successful(s) == PyEq(s.v, PyStr("+CNTP: 1"))

internet_sync_time ==
  \/ /\ Top = "ist_start"
     /\ Call("cg_start", "ist_conn")
     /\ UNCHANGED <<rx, pending, bearer, unsol, phase, op, calls, last, ret, sret, exc, tx,
                    msgid, savbuf, no_carrier_action, msg_action, cmd, cok, gip, cg, ist, gd, ht, sms, fired>>
  \/ /\ Top = "ist_conn"
     /\ IF IsFalse(ret)
          THEN /\ IF close_bearer(ist.keep)
                    THEN Call("dg_start", "ist_ret") /\ UNCHANGED <<ret, phase>>
                    ELSE Return(False)
               /\ UNCHANGED <<cok, exc>>
          ELSE /\ cok' = CokArgs(CmdNtpServer, FALSE, FALSE)
               /\ Call("cok_start", "ist_ntp1")
               /\ UNCHANGED <<ret, phase, exc>>
     /\ UNCHANGED <<rx, pending, bearer, unsol, op, calls, last, sret, tx,
                    msgid, savbuf, no_carrier_action, msg_action, cmd, gip, cg, ist, gd, ht, sms, fired>>
  \/ /\ Top = "ist_ntp1"
     /\ IF ~Truthy(ret)
          THEN \* logging.error("...: %s", r): the name r is not defined here
               Raise("NameError") /\ UNCHANGED cok
          ELSE /\ cok' = CokArgs(CmdNtp, FALSE, FALSE)
               /\ Call("cok_start", "ist_ntp2")
               /\ UNCHANGED <<phase, exc>>
     /\ UNCHANGED <<rx, pending, bearer, unsol, op, calls, last, ret, sret, tx,
                    msgid, savbuf, no_carrier_action, msg_action, cmd, gip, cg, ist, gd, ht, sms, fired>>
  \/ /\ Top = "ist_ntp2"
     /\ ist' = [ist EXCEPT !.polls = 0]
     /\ Call("ci", "ist_poll")
     /\ UNCHANGED <<rx, pending, bearer, unsol, phase, op, calls, last, ret, sret, exc, tx,
                    msgid, savbuf, no_carrier_action, msg_action, cmd, cok, gip, cg, gd, ht, sms, fired>>
  \/ /\ Top = "ist_poll"
     /\ IF ist.polls < PollLimit /\ ~IsCntp(sret)
          THEN \* time.sleep(0.5); s = self.check_incoming()
               /\ ist' = [ist EXCEPT !.polls = @ + 1]
               /\ Call("ci", "ist_poll")
          ELSE /\ ist' = [ist EXCEPT !.s = sret]
               /\ IF ~sync_generic_error(sret) /\ sync_successful(sret)
                    THEN Call("gd_start", "ist_date")
                    ELSE Goto("ist_end")
     /\ UNCHANGED <<rx, pending, bearer, unsol, phase, op, calls, last, ret, sret, exc, tx,
                    msgid, savbuf, no_carrier_action, msg_action, cmd, cok, gip, cg, gd, ht, sms, fired>>
  \/ /\ Top = "ist_date"
     /\ ist' = [ist EXCEPT !.retv = ret]
     /\ Goto("ist_end")
     /\ UNCHANGED <<rx, pending, bearer, unsol, phase, op, calls, last, ret, sret, exc, tx,
                    msgid, savbuf, no_carrier_action, msg_action, cmd, cok, gip, cg, gd, ht, sms, fired>>
  \/ /\ Top = "ist_end"
     /\ IF close_bearer(ist.keep)
          THEN Call("dg_start", "ist_ret") /\ UNCHANGED <<ret, phase>>
          ELSE Return(ist.retv)
     /\ UNCHANGED <<rx, pending, bearer, unsol, op, calls, last, sret, exc, tx,
                    msgid, savbuf, no_carrier_action, msg_action, cmd, cok, gip, cg, ist, gd, ht, sms, fired>>
  \/ /\ Top = "ist_ret"
     /\ Return(ist.retv)
     /\ UNCHANGED <<rx, pending, bearer, unsol, op, calls, last, sret, exc, tx,
                    msgid, savbuf, no_carrier_action, msg_action, cmd, cok, gip, cg, ist, gd, ht, sms, fired>>

(***************************************************************************)
(* http()                                                                  *)
(***************************************************************************)
\* str(n) for n >= 0
RECURSIVE IntStr(_)
IntStr(n) == IF n < 10 THEN Ch("0123456789", n + 1)
             ELSE IntStr(n \div 10) \o Ch("0123456789", (n % 10) + 1)

HttpTimeout == 10
http_init_cmd(url, method) ==
  IF method = "GET"
    THEN "AT+HTTPINIT;+HTTPPARA=\"CID\",1;+HTTPPARA=\"URL\",\"" \o url \o "\""
    ELSE "AT+HTTPINIT;+HTTPPARA=\"CID\",1;+HTTPPARA=\"URL\",\"" \o url
         \o "\";+HTTPPARA=\"CONTENT\",\"application/json\""
http_data_cmd(data) == "AT+HTTPDATA=" \o IntStr(Len(data)) \o "," \o IntStr(HttpTimeout * 1000)

http_length_tolerate(r, len_read) == FALSE
\* the length check after AT+HTTPREAD: TRUE when the exchange is aborted
http_length_abort(r, len_read) ==
  LET params == Split(r, ":") IN
    /\ Len(params) = 2
    /\ params[1] = "+HTTPREAD"
    /\ IsNumeric(Strip(params[2]))
    /\ ~PyEq(len_read, PyInt(ToInt(Strip(params[2]))))

\* the payload loop goes on: `len(ret_data) < len_read and time.monotonic() < expire`
http_reading(ret_data, len_read, polls) == Len(ret_data) < len_read.n /\ polls < PollLimit
\* size asked from the port by each read of the payload loop
http_read_size(ret_data, len_read) == len_read.n

\* the check for OK after the payload: the classification and payload kept
http_after_read(s, ret_data) ==
  IF ~IsOK(s) /\ Strip(Suffix(ret_data, 5)) = "OK"
    THEN [r |-> Tup("OK", None), ret_data |-> DropLast(ret_data, 6)]
    ELSE [r |-> s, ret_data |-> ret_data]

\* as http_data_refused, with the test for DOWNLOAD left out
http_data_refused_on_error(r) == PyEq(r, PyStr("ERROR"))
\* the answer to AT+HTTPDATA stops the upload: `r == "ERROR"`, `r != "DOWNLOAD"`
http_data_refused(r) == PyEq(r, PyStr("ERROR")) \/ ~PyEq(r, PyStr("DOWNLOAD"))

\* the wait for the action result goes on
http_waiting(s, method, polls) == s.k # "HTTPACTION_" \o method /\ polls < PollLimit

HtUnch == <<rx, pending, bearer, unsol, op, calls, last, sret, tx,
            msgid, savbuf, no_carrier_action, msg_action, gip, cg, ist, gd, sms, fired>>
HtFail_NoTerm == Goto("ht_close_false") /\ UNCHANGED cmd
\* `self.command('AT+HTTPTERM\n')`, then close the bearer and return False
HtFail == /\ cmd' = CmdArgs(CmdTerm \o "\n", 1)
          /\ Call("cmd_write", "ht_close_false")
\* not a return, not a raise
Stay == UNCHANGED <<ret, phase, exc>>

http ==
  \/ /\ Top = "ht_start"
     /\ IF ht.url = None \/ ht.method = None
          THEN Return(False)
          ELSE Call("cg_start", "ht_conn") /\ UNCHANGED <<ret, phase>>
     /\ UNCHANGED <<HtUnch, exc, cmd, cok, ht>>
  \/ /\ Top = "ht_conn"
     /\ IF IsFalse(ret)
          THEN Goto("ht_close_false") /\ UNCHANGED <<cok, ht>>
          ELSE /\ ht' = [ht EXCEPT !.bearer_ok = TRUE]
               /\ cok' = CokArgs(http_init_cmd(ht.url.s, ht.method.s), FALSE, FALSE)
               /\ Call("cok_start", "ht_init1")
     /\ UNCHANGED <<HtUnch, cmd>> /\ Stay
  \/ /\ Top = "ht_init1"
     /\ IF ~Truthy(ret)
          THEN /\ cmd' = CmdArgs(CmdTerm \o "\n", 1)
               /\ Call("cmd_write", "ht_init_term")
          ELSE Goto("ht_method") /\ UNCHANGED cmd
     /\ UNCHANGED <<HtUnch, cok, ht>> /\ Stay
  \/ /\ Top = "ht_init_term"
     /\ cok' = CokArgs(http_init_cmd(ht.url.s, ht.method.s), FALSE, FALSE)
     /\ Call("cok_start", "ht_init2")
     /\ UNCHANGED <<HtUnch, cmd, ht>> /\ Stay
  \/ /\ Top = "ht_init2"
     /\ IF ~Truthy(ret) THEN Goto("ht_close_false") ELSE Goto("ht_method")
     /\ UNCHANGED <<HtUnch, cmd, cok, ht>> /\ Stay
  \/ /\ Top = "ht_method"
     /\ IF ht.method.s = "PUT"
          THEN IF ~Truthy(ht.data)
                 THEN HtFail /\ UNCHANGED cok
                 ELSE /\ cok' = CokArgs(http_data_cmd(ht.data.s), TRUE, TRUE)
                      /\ Call("cok_start", "ht_data")
                      /\ UNCHANGED cmd
          ELSE /\ cok' = CokArgs("AT+HTTPACTION=0", FALSE, FALSE)
               /\ Call("cok_start", "ht_action")
               /\ UNCHANGED cmd
     /\ UNCHANGED <<HtUnch, ht>> /\ Stay
  \/ /\ Top = "ht_data"
     /\ IF http_data_refused(ret)
          THEN HtFail
          ELSE Goto("ht_write") /\ UNCHANGED cmd
     /\ UNCHANGED <<HtUnch, cok, ht>> /\ Stay
  \/ \* self.ser.write((data + '\n').encode()); s = self.check_incoming()
     /\ Top = "ht_write"
     /\ rx' = rx \o Flatten(pending)
     /\ Write(ht.data.s \o "\n")
     /\ ht' = [ht EXCEPT !.polls = 0]
     /\ Call("ci", "ht_upl")
     /\ UNCHANGED <<unsol, op, calls, last, sret, msgid, savbuf,
                    no_carrier_action, msg_action, gip, cg, ist, gd, cmd, cok, sms, fired>> /\ Stay
  \/ /\ Top = "ht_upl"
     /\ IF sret = Tup("GENERIC", None) /\ ht.polls < PollLimit
          THEN /\ ht' = [ht EXCEPT !.polls = @ + 1]
               /\ Call("ci", "ht_upl")
               /\ UNCHANGED <<cmd, cok>>
          ELSE IF ~IsOK(sret)
            THEN HtFail /\ UNCHANGED <<cok, ht>>
            ELSE /\ cok' = CokArgs("AT+HTTPACTION=1", FALSE, FALSE)
                 /\ Call("cok_start", "ht_action")
                 /\ UNCHANGED <<cmd, ht>>
     /\ UNCHANGED HtUnch /\ Stay
  \/ /\ Top = "ht_action"
     /\ IF ~Truthy(ret)
          THEN HtFail /\ UNCHANGED ht
          ELSE /\ ht' = [ht EXCEPT !.polls = 0]
               /\ Call("ci", "ht_wait")
               /\ UNCHANGED cmd
     /\ UNCHANGED <<HtUnch, cok>> /\ Stay
  \/ /\ Top = "ht_wait"
     /\ IF http_waiting(sret, ht.method.s, ht.polls)
          THEN /\ ht' = [ht EXCEPT !.polls = @ + 1]
               /\ Call("ci", "ht_wait")
               /\ UNCHANGED cmd
          ELSE IF sret.k # "HTTPACTION_" \o ht.method.s
            THEN HtFail /\ ht' = [ht EXCEPT !.act = sret, !.timed_out = TRUE]
            ELSE /\ ht' = [ht EXCEPT !.len_read = sret.v, !.act = sret]
                 /\ cmd' = CmdArgs(CmdRead, 1)
                 /\ Call("cmd_write", "ht_readlen")
     /\ UNCHANGED <<HtUnch, cok>> /\ Stay
  \/ /\ Top = "ht_readlen"
     /\ IF ret = None
          THEN \* r.split(':') on None
               Raise("AttributeError") /\ UNCHANGED <<ret, cmd, ht>>
          ELSE IF http_length_abort(ret.s, ht.len_read)
            THEN HtFail /\ ht' = [ht EXCEPT !.mismatch = TRUE, !.reply = ret.s] /\ Stay
            ELSE /\ ht' = [ht EXCEPT !.ret_data = "", !.polls = 0, !.reply = ret.s,
                                     !.mismatch = LET p == Split(ret.s, ":") IN
                                        /\ Len(p) = 2 /\ p[1] = "+HTTPREAD"
                                        /\ IsNumeric(Strip(p[2]))
                                        /\ ToInt(Strip(p[2])) # ht.len_read.n]
                 /\ Goto("ht_read") /\ UNCHANGED cmd /\ Stay
     /\ UNCHANGED <<HtUnch, cok>>
  \/ \* ret_data += self.ser.read(len_read).decode(...)
     /\ Top = "ht_read"
     /\ IF http_reading(ht.ret_data, ht.len_read, ht.polls)
          THEN LET n == http_read_size(ht.ret_data, ht.len_read)
                   rd == ReadN(rx, n)
               IN /\ rx' = rd.rest
                  /\ ht' = [ht EXCEPT !.ret_data = @ \o rd.data,
                                      !.consumed = @ + Len(rd.data),
                                      \* a short read lasted until the port timeout
                                      !.polls = IF Len(rd.data) < n THEN @ + 1 ELSE @]
                  /\ UNCHANGED stack
          ELSE Call("ci", "ht_ok") /\ UNCHANGED <<rx, ht>>
     /\ UNCHANGED <<pending, bearer, unsol, op, calls, last, sret, tx, msgid, savbuf,
                    no_carrier_action, msg_action, gip, cg, ist, gd, cmd, cok, sms, fired>> /\ Stay
  \/ /\ Top = "ht_ok"
     /\ LET a == http_after_read(sret, ht.ret_data) IN
          IF ~IsOK(a.r)
            THEN HtFail /\ ht' = [ht EXCEPT !.ret_data = a.ret_data] /\ UNCHANGED cok
            ELSE /\ ht' = [ht EXCEPT !.ret_data = a.ret_data]
                 /\ cok' = CokArgs(CmdTerm, FALSE, FALSE)
                 /\ Call("cok_start", "ht_term")
                 /\ UNCHANGED cmd
     /\ UNCHANGED HtUnch /\ Stay
  \/ /\ Top = "ht_term"
     /\ IF ~Truthy(ret)
          THEN HtFail /\ Stay
          ELSE IF close_bearer(ht.keep)
            THEN Call("dg_start", "ht_disc") /\ UNCHANGED cmd /\ Stay
            ELSE Return(PyStr(ht.ret_data)) /\ UNCHANGED <<cmd, exc>>
     /\ UNCHANGED <<HtUnch, cok, ht>>
  \/ /\ Top = "ht_disc"
     /\ IF ~Truthy(ret)
          THEN /\ cmd' = CmdArgs(CmdTerm \o "\n", 1)
               /\ Call("cmd_write", "ht_disc2") /\ Stay
          ELSE Return(PyStr(ht.ret_data)) /\ UNCHANGED <<cmd, exc>>
     /\ UNCHANGED <<HtUnch, cok, ht>>
  \/ /\ Top = "ht_disc2"
     /\ Call("dg_start", "ht_false")
     /\ UNCHANGED <<HtUnch, cmd, cok, ht>> /\ Stay
  \/ \* `if not keep_session: self.disconnect_gprs()`, `return False`
     /\ Top = "ht_close_false"
     /\ IF close_bearer(ht.keep)
          THEN Call("dg_start", "ht_false") /\ UNCHANGED <<ret, phase>>
          ELSE Return(False)
     /\ UNCHANGED <<HtUnch, exc, cmd, cok, ht>>
  \/ /\ Top = "ht_false"
     /\ Return(False)
     /\ UNCHANGED <<HtUnch, exc, cmd, cok, ht>>

(***************************************************************************)
(* The caller: one call of the driver's API at a time                      *)
(***************************************************************************)
(***************************************************************************)
(* SMS: send_sms(), read_sms(), delete_sms(), read_and_delete_all(),      *)
(* read_next_message()                                                     *)
(***************************************************************************)
Destno == "+391234"
CmdSend == "AT+CMGS=\"" \o Destno \o "\"\n"
CmdList(all_msg) == IF all_msg THEN "AT+CMGL=\"ALL\",1\n" ELSE "AT+CMGL=\"REC UNREAD\",1\n"
CmdReadSms(index_id) == "AT+CMGR=" \o IntStr(index_id) \o "\n"
CmdDelete(index_id) == "AT+CMGD=" \o IntStr(index_id) \o "\n"
CmdDeleteAll == "AT+CMGDA=\"DEL ALL\"\n"

\* as send_sms_result, accepting the tag anywhere in the saved buffer's first field
send_sms_result_loose(result, sb) ==
  IF Truthy(result) /\ result = PyStr(">") /\ Truthy(sb)
    THEN PyStr("OK")
    ELSE PyStr("ERROR")
\* send_sms once command() returned result, with the saved buffer sb
send_sms_result(result, sb) ==
  IF Truthy(result) /\ result = PyStr(">") /\ Truthy(sb)
     /\ Split(sb.s, ":")[1] \in {"+CUSD", "+CMGS"}
    THEN PyStr("OK")
    ELSE PyStr("ERROR")

send_sms ==
  \/ /\ Top = "ss_start"
     /\ cmd' = [CmdArgs(CmdSend, 99) EXCEPT !.msgtext = PyStr(SmsText)]
     /\ Call("cmd_write", "ss_r")
     /\ UNCHANGED <<rx, pending, bearer, unsol, phase, op, calls, last, ret, sret, exc, tx,
                    msgid, savbuf, no_carrier_action, msg_action, cok, gip, cg, ist, gd, ht, fired, sms>>
  \/ /\ Top = "ss_r"
     /\ sms' = [sms EXCEPT !.result = ret]
     /\ Return(send_sms_result(ret, savbuf))
     /\ UNCHANGED <<rx, pending, bearer, unsol, op, calls, last, sret, exc, tx,
                    msgid, savbuf, no_carrier_action, msg_action, cmd, cok, gip, cg, ist, gd, ht, fired>>

\* read_sms once command() returned result, with the saved buffer sb
read_sms_parse(result, sb) ==
  IF ~Truthy(result) THEN [v |-> None, exc |-> ""]
  ELSE LET params == Split(result.s, ",")
           params2 == Split(params[1], ":")
       IN IF params[1] = "" \/ params2[1] # "+CMGR" THEN [v |-> None, exc |-> ""]
          ELSE IF Len(params) < 5 THEN [v |-> None, exc |-> "IndexError"]
          ELSE [v |-> PyRecord(Strip(Remove(params[2], "\"")),
                               Strip(Remove(params[4], "\"")),
                               Strip(Remove(params[5], "\"")), sb),
                exc |-> ""]

read_sms ==
  \/ /\ Top = "rs_start"
     /\ cmd' = CmdArgs(CmdReadSms(sms.index_id), 99)
     /\ Call("cmd_write", "rs_r")
     /\ UNCHANGED <<rx, pending, bearer, unsol, phase, op, calls, last, ret, sret, exc, tx,
                    msgid, savbuf, no_carrier_action, msg_action, cok, gip, cg, ist, gd, ht, fired, sms>>
  \/ /\ Top = "rs_r"
     /\ LET g == read_sms_parse(ret, savbuf) IN
          IF g.exc # "" THEN Raise(g.exc) /\ UNCHANGED ret
          ELSE Return(g.v) /\ UNCHANGED exc
     /\ UNCHANGED <<rx, pending, bearer, unsol, op, calls, last, sret, tx,
                    msgid, savbuf, no_carrier_action, msg_action, cmd, cok, gip, cg, ist, gd, ht, fired, sms>>

delete_sms ==
  \/ /\ Top = "ds_start"
     /\ cmd' = CmdArgs(CmdDelete(sms.index_id), 1)
     /\ Call("cmd_write", "ds_r")
     /\ UNCHANGED <<rx, pending, bearer, unsol, phase, op, calls, last, ret, sret, exc, tx,
                    msgid, savbuf, no_carrier_action, msg_action, cok, gip, cg, ist, gd, ht, fired, sms>>
  \/ /\ Top = "ds_r"
     /\ Return(None)
     /\ UNCHANGED <<rx, pending, bearer, unsol, op, calls, last, sret, exc, tx,
                    msgid, savbuf, no_carrier_action, msg_action, cmd, cok, gip, cg, ist, gd, ht, fired, sms>>

\* `id > 0`: id is the builtin function, which Python 3 does not order
\* against an int
id_above_zero == [v |-> None, exc |-> "TypeError"]

read_and_delete_all ==
  \/ /\ Top = "rada_start"
     /\ IF id_above_zero.exc # ""
          THEN Raise(id_above_zero.exc) /\ UNCHANGED ret
          ELSE IF Truthy(id_above_zero.v)
            THEN Call("rs_start", "rada_read_done") /\ UNCHANGED <<ret, phase, exc>>
            ELSE Goto("rada_finally") /\ UNCHANGED <<ret, phase, exc>>
     /\ UNCHANGED <<rx, pending, bearer, unsol, op, calls, last, sret, tx,
                    msgid, savbuf, no_carrier_action, msg_action, cmd, cok, gip, cg, ist, gd, ht, fired, sms>>
  \/ \* finally: delete all messages; on the way out of `return
     \* self.read_sms(index_id)` the value to return is kept
     /\ Top \in {"rada_finally", "rada_read_done"}
     /\ sms' = IF Top = "rada_read_done" THEN [sms EXCEPT !.data = ret] ELSE sms
     /\ cmd' = CmdArgs(CmdDeleteAll, 1)
     /\ Call("cmd_write", "rada_end")
     /\ UNCHANGED <<rx, pending, bearer, unsol, phase, op, calls, last, ret, sret, exc, tx,
                    msgid, savbuf, no_carrier_action, msg_action, cok, gip, cg, ist, gd, ht, fired>>
  \/ \* the finally clause is over: the pending exception goes on, or the
     \* value of the return statement is returned
     /\ Top = "rada_end"
     /\ IF exc.kind # ""
          THEN stack' = <<>> /\ phase' = "raised" /\ UNCHANGED ret
          ELSE Return(sms.data)
     /\ UNCHANGED <<rx, pending, bearer, unsol, op, calls, last, sret, exc, tx,
                    msgid, savbuf, no_carrier_action, msg_action, cmd, cok, gip, cg, ist, gd, ht, fired, sms>>

\* the longest prefix of s made of digits
RECURSIVE DigitRun(_)
DigitRun(s) == IF Len(s) > 0 /\ Ch(s, 1) \in Digits
                 THEN Ch(s, 1) \o DigitRun(SubSeq(s, 2, Len(s)))
                 ELSE ""
\* the pattern '\+CMGL: (\d*),"<tag>.*' matches at position p of rec
ListMatch(rec, p, tag) ==
  LET t == SubSeq(rec, p, Len(rec))
      u == SubSeq(t, 8, Len(t))
      d == DigitRun(u)
  IN StartsWith(t, "+CMGL: ") /\ StartsWith(SubSeq(u, Len(d) + 1, Len(u)), ",\"" \o tag)
\* re.sub(r'\+CMGL: (\d*),"<tag>.*', r'\1', rec) for a one-line rec
ListIndex(rec, tag) ==
  IF \E p \in 1..Len(rec) : ListMatch(rec, p, tag)
    THEN LET p == CHOOSE q \in 1..Len(rec) :
                    ListMatch(rec, q, tag) /\ \A j \in 1..(q - 1) : ~ListMatch(rec, j, tag)
         IN SubSeq(rec, 1, p - 1) \o DigitRun(SubSeq(rec, p + 7, Len(rec)))
    ELSE rec

read_next_message ==
  \/ /\ Top = "rnm_start"
     /\ cmd' = CmdArgs(CmdList(sms.all_msg), 1)
     /\ Call("cmd_write", "rnm_rec")
     /\ UNCHANGED <<rx, pending, bearer, unsol, phase, op, calls, last, ret, sret, exc, tx,
                    msgid, savbuf, no_carrier_action, msg_action, cok, gip, cg, ist, gd, ht, fired, sms>>
  \/ /\ Top = "rnm_rec"
     /\ IF ret = PyStr("OK")
          THEN /\ sms' = [sms EXCEPT !.rec = ret]
               /\ Return(None)
               /\ UNCHANGED exc
          ELSE IF ret = None
            THEN \* re.sub(pattern, repl, None)
                 /\ sms' = [sms EXCEPT !.rec = ret]
                 /\ Raise("TypeError")
                 /\ UNCHANGED ret
          ELSE LET index_s == ListIndex(ret.s, "STO") IN
               IF IsNumeric(index_s)
                 THEN /\ sms' = [sms EXCEPT !.rec = ret, !.index_id = ToInt(index_s)]
                      /\ Call("ds_start", "rnm_sto_done")
                      /\ UNCHANGED <<ret, phase, exc>>
                 ELSE /\ sms' = [sms EXCEPT !.rec = ret]
                      /\ Goto("rnm_int")
                      /\ UNCHANGED <<ret, phase, exc>>
     /\ UNCHANGED <<rx, pending, bearer, unsol, op, calls, last, sret, tx,
                    msgid, savbuf, no_carrier_action, msg_action, cmd, cok, gip, cg, ist, gd, ht, fired>>
  \/ /\ Top = "rnm_sto_done"
     /\ Return(None)
     /\ UNCHANGED <<rx, pending, bearer, unsol, op, calls, last, sret, exc, tx,
                    msgid, savbuf, no_carrier_action, msg_action, cmd, cok, gip, cg, ist, gd, ht, fired, sms>>
  \/ \* try: index = int(re.sub(...)); data = self.read_sms(index)
     /\ Top = "rnm_int"
     /\ LET index_s == ListIndex(sms.rec.s, "REC") IN
          IF ~IntOk(index_s)
            THEN Raise("ValueError") /\ UNCHANGED sms
            ELSE /\ sms' = [sms EXCEPT !.index = ToInt(Strip(index_s)),
                                       !.index_id = ToInt(Strip(index_s))]
                 /\ Call("rs_start", "rnm_read_done")
                 /\ UNCHANGED <<phase, exc>>
     /\ UNCHANGED <<rx, pending, bearer, unsol, op, calls, last, ret, sret, tx,
                    msgid, savbuf, no_carrier_action, msg_action, cmd, cok, gip, cg, ist, gd, ht, fired>>
  \/ \* self.delete_sms(index)
     /\ Top = "rnm_read_done"
     /\ sms' = [sms EXCEPT !.data = ret, !.read = ret, !.index_id = sms.index]
     /\ Call("ds_start", "rnm_del_done")
     /\ UNCHANGED <<rx, pending, bearer, unsol, phase, op, calls, last, ret, sret, exc, tx,
                    msgid, savbuf, no_carrier_action, msg_action, cmd, cok, gip, cg, ist, gd, ht, fired>>
  \/ /\ Top = "rnm_del_done"
     /\ Return(sms.data)
     /\ UNCHANGED <<rx, pending, bearer, unsol, op, calls, last, sret, exc, tx,
                    msgid, savbuf, no_carrier_action, msg_action, cmd, cok, gip, cg, ist, gd, ht, fired, sms>>
  \/ \* except Exception: return None
     /\ Top = "rnm_except"
     /\ Return(None)
     /\ UNCHANGED <<rx, pending, bearer, unsol, op, calls, last, sret, exc, tx,
                    msgid, savbuf, no_carrier_action, msg_action, cmd, cok, gip, cg, ist, gd, ht, fired, sms>>

Apn == PyStr("internet")
Url == PyStr("http://h/")

\* common part of starting a top-level call; c holds the arguments when the
\* call is one of command() itself
BeginWith(o, entry, c) ==
  /\ phase \in {"idle", "returned", "raised"}
  /\ calls' = calls + 1
  /\ last' = [name |-> op.name, phase |-> phase, ret |-> ret]
  /\ op' = o
  /\ stack' = <<entry>>
  /\ phase' = "running"
  /\ ret' = None
  /\ sret' = NoTup
  /\ exc' = NoExc
  /\ tx' = <<>>
  /\ cmd' = c
  /\ cok' = Cok0
  /\ gip' = Gip0
  /\ gd' = Gd0
  /\ UNCHANGED <<rx, pending, bearer, unsol, msgid, savbuf, no_carrier_action, msg_action, fired>>
Begin(o, entry) == BeginWith(o, entry, Cmd0)

call_connect_gprs ==
  \E a \in {None, Apn} :
    /\ calls < MaxCalls
    /\ Begin([Op0 EXCEPT !.name = "connect_gprs", !.apn = a], "cg_start")
    /\ cg' = [Cg0 EXCEPT !.apn = a]
    /\ ist' = Ist0
    /\ ht' = Ht0
    /\ sms' = Sms0

\* one call of internet_sync_time on a fresh session
call_internet_sync_time ==
  \E a \in {None, Apn}, k \in BOOLEAN :
    /\ calls = 0
    /\ Begin([Op0 EXCEPT !.name = "internet_sync_time", !.apn = a, !.keep = k], "ist_start")
    /\ cg' = [Cg0 EXCEPT !.apn = a]
    /\ ist' = [Ist0 EXCEPT !.keep = k]
    /\ ht' = Ht0
    /\ sms' = Sms0

\* one call of http on a fresh session
call_http ==
  \E u \in {None, Url}, m \in {None, PyStr("GET"), PyStr("PUT")},
     d \in {None, PyStr(Payload)}, k \in BOOLEAN :
    /\ calls = 0
    \* data is read on the PUT path only
    /\ d # None => u # None /\ m = PyStr("PUT")
    /\ Begin([Op0 EXCEPT !.name = "http", !.apn = Apn, !.keep = k,
                         !.url = u, !.method = m, !.data = d], "ht_start")
    /\ cg' = [Cg0 EXCEPT !.apn = Apn]
    /\ ist' = Ist0
    /\ ht' = [Ht0 EXCEPT !.url = u, !.method = m, !.data = d, !.keep = k]
    /\ sms' = Sms0

call_disconnect_gprs ==
  /\ calls < MaxCalls
  /\ Begin([Op0 EXCEPT !.name = "disconnect_gprs"], "dg_start")
  /\ cg' = Cg0
  /\ ist' = Ist0
  /\ ht' = Ht0
  /\ sms' = Sms0

\* the locals of the bearer and HTTP operations, which an SMS call leaves alone
SmsCall(o, entry) ==
  /\ calls < MaxCalls
  /\ Begin(o, entry)
  /\ cg' = Cg0
  /\ ist' = Ist0
  /\ ht' = Ht0

call_send_sms ==
  /\ SmsCall([Op0 EXCEPT !.name = "send_sms"], "ss_start")
  /\ sms' = Sms0

call_read_next_message ==
  \E a \in BOOLEAN :
    /\ SmsCall([Op0 EXCEPT !.name = "read_next_message"], "rnm_start")
    /\ sms' = [Sms0 EXCEPT !.all_msg = a]

call_read_and_delete_all ==
  \E i \in {1, 4} :
    /\ SmsCall([Op0 EXCEPT !.name = "read_and_delete_all"], "rada_start")
    /\ sms' = [Sms0 EXCEPT !.index_id = i]

call_read_sms ==
  /\ SmsCall([Op0 EXCEPT !.name = "read_sms"], "rs_start")
  /\ sms' = [Sms0 EXCEPT !.index_id = 4]

\* the application polls the classifier
call_check_incoming ==
  /\ SmsCall([Op0 EXCEPT !.name = "check_incoming"], "ci")
  /\ sms' = Sms0

\* callback_msg(action), callback_no_carrier(action): between two calls the
\* application registers a callback
callback_msg ==
  /\ phase # "running"
  /\ ~msg_action
  /\ msg_action' = TRUE
  /\ UNCHANGED <<rx, pending, bearer, unsol, stack, phase, op, calls, last, ret, sret, exc,
                 tx, msgid, savbuf, no_carrier_action, cmd, cok, gip, cg, ist, gd, ht,
                 sms, fired>>

callback_no_carrier ==
  /\ phase # "running"
  /\ ~no_carrier_action
  /\ no_carrier_action' = TRUE
  /\ UNCHANGED <<rx, pending, bearer, unsol, stack, phase, op, calls, last, ret, sret, exc,
                 tx, msgid, savbuf, msg_action, cmd, cok, gip, cg, ist, gd, ht,
                 sms, fired>>

\* what the modem sends unasked while the application works with messages:
\* a new message, two new messages in a row, a lost carrier, a call
IncomingLines ==
  UnsolLines \cup {"+CMTI: \"SM\",3" \o CRLF \o CRLF \o "+CMTI: \"SM\",4", "NO CARRIER"}
Incoming == Notify(IncomingLines)

\* the bearer API: connect_gprs and disconnect_gprs called one after the other
NextGprs ==
  \/ Deliver
  \/ Unsolicited
  \/ command_write
  \/ command_read1
  \/ command_read2
  \/ check_incoming
  \/ command_ok
  \/ disconnect_gprs
  \/ get_ip
  \/ connect_gprs
  \/ call_connect_gprs
  \/ call_disconnect_gprs

SpecGprs == Init /\ [][NextGprs]_vars


\* one internet_sync_time call
NextSync ==
  \/ Deliver
  \/ Unsolicited
  \/ command_write
  \/ command_read1
  \/ command_read2
  \/ check_incoming
  \/ command_ok
  \/ disconnect_gprs
  \/ get_ip
  \/ connect_gprs
  \/ get_date
  \/ internet_sync_time
  \/ call_internet_sync_time

SpecSync == Init /\ [][NextSync]_vars


\* one http call; the unsolicited traffic is incoming calls
NextHttp ==
  \/ Deliver
  \/ Ringing
  \/ command_write
  \/ command_read1
  \/ command_read2
  \/ check_incoming
  \/ command_ok
  \/ disconnect_gprs
  \/ get_ip
  \/ connect_gprs
  \/ http
  \/ call_http

SpecHttp == Init /\ [][NextHttp]_vars


\* the SMS API: send_sms, read_next_message and read_and_delete_all called
\* one after the other
NextSms ==
  \/ Deliver
  \/ Unsolicited
  \/ command_write
  \/ command_read1
  \/ command_read2
  \/ command_more
  \/ send_sms
  \/ read_sms
  \/ delete_sms
  \/ read_and_delete_all
  \/ read_next_message
  \/ call_send_sms
  \/ call_read_next_message
  \/ call_read_and_delete_all

\* the SMS operations do not use the bearer
InitSms == Init /\ bearer = ""
SpecSms == InitSms /\ [][NextSms]_vars


\* the application registers callbacks, polls the classifier and reads a
\* message while notifications come in
NextNotify ==
  \/ Deliver
  \/ Incoming
  \/ command_write
  \/ command_read1
  \/ command_read2
  \/ command_more
  \/ check_incoming
  \/ read_sms
  \/ call_check_incoming
  \/ call_read_sms
  \/ callback_msg
  \/ callback_no_carrier

SpecNotify == InitSms /\ [][NextNotify]_vars

\* expected_lines of the direct calls of command(), and the command they send
CommandLines == {1, 3, 99}
\* the application calls command() itself, with or without the flush
call_command ==
  \E n \in CommandLines, f \in BOOLEAN :
    /\ calls < MaxCalls
    /\ BeginWith([Op0 EXCEPT !.name = "command"], "cmd_write",
                 [Cmd0 EXCEPT !.cmdstr = CmdReadSms(4), !.lines = n, !.flush_input = f])
    /\ cg' = Cg0
    /\ ist' = Ist0
    /\ ht' = Ht0
    /\ sms' = Sms0

\* the transaction engine called directly, while notifications come in
NextCommand ==
  \/ Deliver
  \/ Unsolicited
  \/ command_write
  \/ command_read1
  \/ command_read2
  \/ command_more
  \/ call_command

SpecCommand == InitSms /\ [][NextCommand]_vars

\* the texts given to the codec: up to MaxText characters of the alphabet
Texts == UNION {[1..n -> Alphabet] : n \in 0..MaxText}

\* the application encodes a text and decodes the bytes it got:
\* convert_to_string(convert_gsm(t))
call_codec ==
  \E t \in Texts :
    /\ calls = 0
    /\ Begin([Op0 EXCEPT !.name = "codec", !.data = PyText(t)], "codec_encode")
    /\ cg' = Cg0
    /\ ist' = Ist0
    /\ ht' = Ht0
    /\ sms' = Sms0

\* convert_gsm(string)
codec_convert_gsm ==
  /\ Top = "codec_encode"
  /\ ret' = PyBytes(ConvertGsm(op.data.c))
  /\ Goto("codec_decode")
  /\ UNCHANGED <<rx, pending, bearer, unsol, phase, op, calls, last, sret, exc, tx,
                 msgid, savbuf, no_carrier_action, msg_action,
                 cmd, cok, gip, cg, ist, gd, ht, sms, fired>>

\* convert_to_string(buf)
codec_convert_to_string ==
  /\ Top = "codec_decode"
  /\ Return(PyText(ConvertToString(ret.b)))
  /\ UNCHANGED <<rx, pending, bearer, unsol, op, calls, last, sret, exc, tx,
                 msgid, savbuf, no_carrier_action, msg_action,
                 cmd, cok, gip, cg, ist, gd, ht, sms, fired>>

NextCodec ==
  \/ call_codec
  \/ codec_convert_gsm
  \/ codec_convert_to_string

SpecCodec == InitSms /\ [][NextCodec]_vars


(***************************************************************************)
(* Properties                                                              *)
(***************************************************************************)
\* the current call wrote a command beginning with p
Issued(p) == \E i \in 1..Len(tx) : StartsWith(tx[i], p)
TermIssued == Issued(CmdTerm)
CloseIssued == Issued(CmdClose)
OpenIssued == Issued("AT+SAPBR=3,1")
HttpReturned == op.name = "http" /\ phase = "returned"

\* C1: when http() returns False after the bearer phase succeeded, it has
\* issued AT+HTTPTERM during the call, whichever later phase failed.
C1_TermBeforeFalse ==
  (HttpReturned /\ IsFalse(ret) /\ ht.bearer_ok) => TermIssued

\* http() returned False because the wait for the action result timed out
C1_Witness ==
  HttpReturned /\ IsFalse(ret) /\ ht.bearer_ok /\ ht.timed_out /\ TermIssued

\* C2: an http() call that reached the bearer phase and returns with
\* keep_session false has issued AT+SAPBR=0,1, on success and on failure;
\* with keep_session true the call never issues AT+SAPBR=0,1.
C2_BearerClosed ==
  op.name = "http" =>
    /\ (phase = "returned" /\ ht.url # None /\ ht.method # None /\ ~ht.keep)
         => CloseIssued
    /\ ht.keep => ~CloseIssued

\* a successful http() without keep_session closed the bearer
C2_Witness ==
  HttpReturned /\ ~ht.keep /\ ret.t = "str" /\ Len(ret.s) > 0 /\ CloseIssued

\* C3 as stated: when +HTTPREAD announces another length than the action
\* result, the exchange is not aborted and http() goes on to read the payload.
C3_MismatchTolerated ==
  [][(Top = "ht_readlen" /\ ht'.mismatch) => Top' = "ht_read"]_vars

\* C3 amended: when +HTTPREAD announces another length than the action
\* result, http() aborts: it reads no payload byte, and when it returns it
\* returns False and has issued AT+HTTPTERM.
C3_MismatchAborts ==
  (op.name = "http" /\ ht.mismatch) =>
    /\ ht.consumed = 0
    /\ phase = "returned" => (IsFalse(ret) /\ TermIssued)

\* http() returned False after a length mismatch
C3_Witness ==
  HttpReturned /\ ht.mismatch /\ IsFalse(ret) /\ ht.act.v = PyInt(6)

\* C4: after an action result with a non-accepted status or a non-numeric
\* length, or when no action result arrived before the deadline, http()
\* returns False.
C4_RejectedReturnsFalse ==
  (HttpReturned
     /\ (ht.timed_out \/ (ht.act.k = "HTTPACTION_" \o ht.method.s /\ IsFalse(ht.act.v))))
    => IsFalse(ret)

\* C5: once the modem announced the payload (+HTTPREAD: 6 after an action
\* result of length 6), the payload reads never take more bytes from the port
\* than the action result announced, and a successful call that received
\* them all returns a payload of exactly that length.
C5_ExactPayload ==
  (op.name = "http" /\ ht.len_read.t = "int" /\ ht.reply = "+HTTPREAD: 6") =>
    /\ ht.consumed <= ht.len_read.n
    /\ (phase = "returned" /\ ret.t = "str" /\ ht.consumed >= ht.len_read.n)
         => Len(ret.s) = ht.len_read.n

\* C6: command_ok ends with a return value, never with an exception, when
\* its immediate read produced nothing.
C6_NoRaise ==
  ~(phase = "raised" /\ exc.kind = "AttributeError" /\ exc.at = "cok_r")

\* the classification ends the polling of command_ok
Terminal(s) ==
  \/ IsOK(s)
  \/ (cok.cd /\ s = Tup("DOWNLOAD", None))
  \/ (cok.ce /\ s = Tup("ERROR", None))

\* C7: in the polling path of command_ok, a classification that is not a
\* matching terminal notification does not end the polling before the
\* deadline: the classifier is polled again.
C7_PollsPastTraffic ==
  [][(Top = "cok_poll" /\ cok.polls < PollLimit /\ ~Terminal(sret)) => Top' = "ci"]_vars

\* C8: when the first IP query of connect_gprs finds an IP, the call does not
\* issue the open-bearer command and returns that IP; two connect_gprs calls
\* in a row that both return an IP return the same one.
C8_ReuseIp ==
  op.name = "connect_gprs" =>
    /\ Truthy(cg.first_ip) =>
         (~OpenIssued /\ (phase = "returned" => ret = cg.first_ip))
    /\ (phase = "returned" /\ Truthy(ret) /\ last.name = "connect_gprs"
          /\ last.phase = "returned" /\ Truthy(last.ret))
         => ret = last.ret

\* the second of two connect_gprs calls reused the IP the first returned
C8_Witness ==
  /\ op.name = "connect_gprs" /\ phase = "returned"
  /\ last.name = "connect_gprs" /\ last.phase = "returned" /\ Truthy(last.ret)
  /\ Truthy(cg.first_ip) /\ ret = last.ret /\ ~OpenIssued

\* get_ip has just returned to connect_gprs
AfterGetIp == Top \in {"cg_ip1", "cg_ip2"}
\* the reply to the bearer-status query lacks the +SAPBR tag
NoSapbrTag == gip.r.t = "str" /\ ~StartsWith(gip.r.s, "+SAPBR")

\* C9 as stated: get_ip returns False whenever the reply to the
\* bearer-status query lacks the +SAPBR tag.
C9_NoTagIsFalse ==
  (AfterGetIp /\ NoSapbrTag) => IsFalse(ret)

\* C9 amended: get_ip returns False exactly when the line classified after
\* the reply is not OK; a reply without the +SAPBR tag that is followed by OK
\* makes it return None, and a connect_gprs whose first query returned None
\* has issued the open-bearer command when it returns.
C9_FalseIffNoOk ==
  /\ AfterGetIp =>
       /\ IsFalse(ret) <=> ~IsOK(sret)
       /\ (IsOK(sret) /\ NoSapbrTag) => ret = None
  /\ (op.name = "connect_gprs" /\ phase = "returned" /\ cg.queried /\ cg.first_ip = None)
       => OpenIssued

\* get_ip returned None for a reply without the tag, followed by OK
C9_Witness ==
  Top = "cg_ip1" /\ NoSapbrTag /\ IsOK(sret) /\ ret = None

\* the call ended, by a return or by an exception; the AttributeError of
\* command_ok (C6) is left aside
SyncEnded == phase = "returned" \/ (phase = "raised" /\ exc.at # "cok_r")

\* C10: a call of internet_sync_time with keep_session false has issued
\* AT+SAPBR=0,1 when it ends, whatever the outcome of the bearer connect, of
\* the NTP commands and of the wait; with keep_session true it never issues it.
C10_SyncClosesBearer ==
  op.name = "internet_sync_time" =>
    /\ (SyncEnded /\ ~ist.keep) => CloseIssued
    /\ ist.keep => ~CloseIssued

\* C11: in internet_sync_time a missing acknowledgement (command_ok returning
\* a false value) of the NTP-server-and-timezone command or of the bare sync
\* trigger is only logged: the call goes on, with the sync trigger after the
\* first and with the polling for the +CNTP line after the second.
C11_MissingAckOnlyLogged ==
  [][(op.name = "internet_sync_time" /\ ~Truthy(ret))
       => /\ Top = "ist_ntp1" => (Top' = "cok_start" /\ cok'.cmd = CmdNtp)
          /\ Top = "ist_ntp2" => (Len(stack') >= 2 /\ stack'[1] = "ci" /\ stack'[2] = "ist_poll")]_vars

\* C12: when internet_sync_time returns, it returns the device date/time if
\* the wait ended on the Generic line '+CNTP: 1' and False in every other
\* case: another result code, another line, no line before the deadline, or
\* no bearer.
C12_DateIffCntp1 ==
  (op.name = "internet_sync_time" /\ phase = "returned")
     => IF ist.s = Tup("GENERIC", PyStr("+CNTP: 1"))
          THEN ret.t = "datetime"
          ELSE ret = False
C12_Witness ==
  /\ op.name = "internet_sync_time" /\ phase = "returned"
  /\ ist.s = Tup("GENERIC", PyStr("+CNTP: 1")) /\ ret.t = "datetime"

\* the text of x before its first ':'
TagOf(x) == IF FirstIdx(x, ":") = 0 THEN x ELSE SubSeq(x, 1, FirstIdx(x, ":") - 1)

\* C13: send_sms never ends in an error and returns 'OK' or 'ERROR'; it
\* returns 'OK' exactly when the primary result of its transaction is the
\* prompt '>' and the saved buffer of that transaction begins with the tag
\* +CUSD or +CMGS.
C13_SendResult ==
  op.name = "send_sms" =>
    /\ phase # "raised"
    /\ phase = "returned" =>
         /\ ret \in {PyStr("OK"), PyStr("ERROR")}
         /\ ret = PyStr("OK") <=>
              /\ sms.result = PyStr(">")
              /\ savbuf.t = "str"
              /\ TagOf(savbuf.s) \in {"+CUSD", "+CMGS"}
C13_Witness ==
  /\ op.name = "send_sms" /\ phase = "returned" /\ ret = PyStr("OK")
  /\ sms.result = PyStr(">") /\ TagOf(savbuf.s) = "+CMGS"

\* the listing line rec is a record of the kind tag ("STO" or "REC"), and its index
Listed(rec, tag) ==
  rec.t = "str" /\ ListMatch(rec.s, 1, tag) /\ DigitRun(SubSeq(rec.s, 8, Len(rec.s))) # ""
ListedIndex(rec) == ToInt(DigitRun(SubSeq(rec.s, 8, Len(rec.s))))
RnmReturned == op.name = "read_next_message" /\ phase = "returned"

\* C14: when read_next_message returns: after the listing reply 'OK' it has
\* issued no read and no delete and returns None; after a stored/sent record
\* at index i it has issued the delete for i and no read and returns None;
\* after a received record at index i it has issued the read for i and then
\* the delete for i, and returns what the read produced.
C14_Drain ==
  RnmReturned =>
    /\ sms.rec = PyStr("OK") => (tx = <<CmdList(sms.all_msg)>> /\ ret = None)
    /\ Listed(sms.rec, "STO") =>
         /\ tx = <<CmdList(sms.all_msg), CmdDelete(ListedIndex(sms.rec))>>
         /\ ret = None
    /\ Listed(sms.rec, "REC") =>
         /\ tx = <<CmdList(sms.all_msg), CmdReadSms(ListedIndex(sms.rec)),
                   CmdDelete(ListedIndex(sms.rec))>>
         /\ ret = sms.read

\* C15: read_next_message never ends in an error.
C15_NeverRaises == op.name = "read_next_message" => phase # "raised"

RadaEnded == op.name = "read_and_delete_all" /\ phase \in {"returned", "raised"}
\* number of times the current call wrote w
Written(w) == Cardinality({i \in 1..Len(tx) : tx[i] = w})

\* C16: when a call of read_and_delete_all has ended, by a return or by an
\* error, it has issued AT+CMGDA="DEL ALL" exactly once.
C16_DeleteAllOnce == RadaEnded => Written(CmdDeleteAll) = 1
C16_Witness == RadaEnded /\ exc.kind = "TypeError" /\ Written(CmdDeleteAll) = 1

\* C17: a call of read_and_delete_all with an index above 0 does not end in
\* an error, and when it has ended it has issued the read for that index
\* and then the delete-all command.
C17_ReadsThenDeletes ==
  (RadaEnded /\ sms.index_id > 0)
     => /\ phase = "returned"
        /\ tx = <<CmdReadSms(sms.index_id), CmdDeleteAll>>

\* a step of the classifier itself, as opposed to bytes arriving while it is due
ClassifierStep == Top = "ci" /\ stack' # stack

\* C18: check_incoming called when no byte is buffered returns
\* ("GENERIC", None): it reads nothing, invokes no callback, raises nothing
\* and leaves the message-index counter and the saved buffer as they were.
C18_EmptyIsGenericNone ==
  [][(ClassifierStep /\ rx = "")
       => /\ sret' = Tup("GENERIC", None)
          /\ stack' = Tail(stack) /\ phase' # "raised"
          /\ rx' = rx /\ msgid' = msgid /\ savbuf' = savbuf /\ fired' = fired]_vars
C18_Witness ==
  op.name = "check_incoming" /\ phase = "returned" /\ sret = Tup("GENERIC", None)

\* C19: classifying the line 'NO CARRIER' returns ("NOCARRIER", None) without
\* an error whether or not a carrier-lost callback is registered, and invokes
\* the callback when one is.
C19_NoCarrierClassified ==
  [][(ClassifierStep /\ rx # "" /\ IncomingLine(rx).buf = "NO CARRIER")
       => /\ sret' = Tup("NOCARRIER", None)
          /\ phase' # "raised"
          /\ fired'.no_carrier = fired.no_carrier + (IF no_carrier_action THEN 1 ELSE 0)]_vars

\* the index carried by a +CMTI line
CmtiIndex(buf) == ToInt(SubSeq(buf, 13, Len(buf)))
\* C20: the message-index counter is 0 at first and always the index of the
\* last +CMTI line classified; only the classification of a +CMTI line
\* changes it, and that classification sets it to the line's index, invokes
\* the incoming-SMS callback if one is registered and returns ("CMTI", index).
C20_MsgidTracksCmti ==
  /\ msgid = 0
  /\ [][/\ msgid' = fired'.cmti
        /\ msgid' # msgid => (Top = "ci" /\ sret'.k = "CMTI")
        /\ (ClassifierStep /\ rx # "" /\ StartsWith(IncomingLine(rx).buf, "+CMTI: \"SM\","))
             => LET n == CmtiIndex(IncomingLine(rx).buf) IN
                /\ msgid' = n
                /\ sret' = Tup("CMTI", PyInt(n))
                /\ fired'.msg = fired.msg + (IF msg_action THEN 1 ELSE 0)]_vars
C20_Witness ==
  /\ op.name = "check_incoming" /\ phase = "returned"
  /\ sret = Tup("CMTI", PyInt(4)) /\ msgid = 4 /\ fired.msg = 2


\* the codec was applied both ways to the text of the call
RoundTripDone == op.name = "codec" /\ phase = "returned"

\* C21 as stated: decoding the encoding of a text of the supported alphabet
\* gives the text back.
C21_RoundTrip == RoundTripDone => ret.c = op.data.c

\* C21: decoding the encoding of a text of the supported alphabet gives the
\* text without the whitespace (space, line feed, carriage return, form feed)
\* at its two ends; the text comes back unchanged exactly when it neither
\* starts nor ends with whitespace.
C21_RoundTripStripped ==
  RoundTripDone =>
    LET t == op.data.c
        d == ret.c
    IN /\ \E i \in 1..(Len(t) + 1), j \in 0..Len(t) :
            /\ d = SubSeq(t, i, j)
            /\ \A k \in 1..Len(t) : (k < i \/ k > j) => t[k] \in PyWhitespace
            /\ d # <<>> => d[1] \notin PyWhitespace /\ d[Len(d)] \notin PyWhitespace
       /\ d = t <=> (t = <<>> \/ (t[1] \notin PyWhitespace /\ t[Len(t)] \notin PyWhitespace))
\* a text with a character outside ASCII's positions, an inner space and an
\* escaped character came back unchanged
C21_Witness == RoundTripDone /\ op.data.c = <<"@", " ", "{">> /\ ret.c = op.data.c


\* the write of the raw payload of a PUT, and of its action command
PayloadWrite == Payload \o "\n"
PutAction == "AT+HTTPACTION=1\n"

\* C22: in a PUT the payload is written right behind AT+HTTPDATA and only when
\* the confirmation of that command gave DOWNLOAD; AT+HTTPACTION=1 is written
\* right behind the payload and only when the last classification, made after
\* the payload was written, is Ok.  So after ERROR, another answer or a wait
\* without Ok the call writes neither.
C22_PutUpload ==
  /\ [](\A k \in 1..Len(tx) :
          /\ tx[k] = PayloadWrite => k > 1 /\ StartsWith(tx[k - 1], "AT+HTTPDATA=")
          /\ tx[k] = PutAction => k > 1 /\ tx[k - 1] = PayloadWrite)
  /\ [][Len(tx') > Len(tx) =>
          LET w == tx'[Len(tx')] IN
            /\ w = PayloadWrite => ret = PyStr("DOWNLOAD") /\ op.method = PyStr("PUT")
            /\ w = PutAction => sret = Tup("OK", None) /\ Top = "cmd_write"]_vars
\* a PUT whose upload was confirmed and whose action command was written
C22_Witness ==
  /\ op.name = "http" /\ op.method = PyStr("PUT")
  /\ Len(tx) >= 3 /\ tx[Len(tx)] = PutAction /\ tx[Len(tx) - 1] = PayloadWrite


\* C23: the step of command() that writes the command leaves nothing of what
\* was buffered before it when flush_input is set, and all of it, in front of
\* whatever arrives later, when flush_input is not set; the reads that give
\* the result and the saved buffer come after that step.
C23_FlushDiscards ==
  [][Top = "cmd_write" /\ Len(tx') > Len(tx) =>
       IF cmd.flush_input THEN rx' = "" ELSE StartsWith(rx', rx)]_vars
\* a direct call with the flush, started while a notification was buffered:
\* the command is written, its reply is on the way and the port is empty
C23_Witness ==
  /\ op.name = "command" /\ cmd.flush_input /\ Top = "cmd_read1"
  /\ calls = 1 /\ unsol = 1 /\ rx = "" /\ pending # <<>>


\* a direct call of command() has returned
CommandReturned == op.name = "command" /\ phase = "returned"
\* the saved buffer made of the lines reads: each line trimmed and, unless it
\* is empty, is OK or starts with the storage-notification prefix, followed
\* by a line feed
RECURSIVE SavedOf(_)
SavedOf(reads) ==
  IF reads = <<>> THEN ""
  ELSE LET text == Strip(Head(reads)) IN
         (IF text = "" \/ text = "OK" \/ Prefix(text, 12) = "+CMTI: \"SM\"," THEN "" ELSE text \o "\n")
         \o SavedOf(Tail(reads))

\* C24: when command() with lines = N > 1 has returned a non-empty first
\* line, it made at most N-1 further reads, none after a read that gave
\* nothing and fewer than N-1 only when the last one gave nothing; the saved
\* buffer is made, in order, of the lines read that are not empty, not OK and
\* not a storage notification; the value returned is the first line alone.
C24_SavedBuffer ==
  (CommandReturned /\ cmd.lines > 1 /\ Truthy(ret)) =>
    LET n == Len(cmd.read) IN
      /\ n <= cmd.lines - 1
      /\ \A k \in 1..(n - 1) : cmd.read[k] # ""
      /\ n < cmd.lines - 1 => (n > 0 /\ cmd.read[n] = "")
      /\ savbuf = PyStr(SavedOf(cmd.read))
      /\ ret = PyStr(cmd.result) /\ FirstIdx(ret.s, "\n") = 0
\* a reply read to its end: the text of the message is saved, the storage
\* notification and the closing OK behind it are not
C24_Witness ==
  /\ CommandReturned /\ cmd.lines = 99 /\ ret = PyStr(CmgrLine)
  /\ savbuf = PyStr(SmsText \o "\n")
  /\ \E k \in 1..Len(cmd.read) : Strip(cmd.read[k]) = "+CMTI: \"SM\",5"
  /\ \E k \in 1..Len(cmd.read) : Strip(cmd.read[k]) = "OK"
  /\ cmd.read[Len(cmd.read)] = ""


\* send_sms or read_sms is about to look at the saved buffer: the transaction
\* gave the prompt to send_sms, a non-empty first line to read_sms
SavbufInspected ==
  \/ Top = "ss_r" /\ ret = PyStr(">")
  \/ Top = "rs_r" /\ Truthy(ret)

\* C25: whenever send_sms or read_sms looks at the saved buffer, the buffer is
\* made of the further lines read by the transaction of that very call, and
\* of nothing an earlier command saved.  A send_sms whose transaction gave
\* no prompt answers ERROR whatever the buffer holds.
C25_SavbufOfThisCall ==
  /\ SavbufInspected => savbuf = PyStr(SavedOf(cmd.read))
  /\ (op.name = "send_sms" /\ phase = "returned") =>
       /\ ret = PyStr("OK") => savbuf = PyStr(SavedOf(cmd.read))
       /\ savbuf # PyStr(SavedOf(cmd.read)) => ret = PyStr("ERROR")
\* send_sms, called after a call that returned a message and so left its text
\* in the saved buffer, looks at the tag saved by its own transaction
C25_Witness ==
  /\ Top = "ss_r" /\ ret = PyStr(">") /\ calls = 2
  /\ last.name = "read_next_message" /\ last.ret.t = "list"
  /\ savbuf = PyStr("+CMGS: 12\n")


\* C26: when read_next_message returns after a received record at index i was
\* listed, it has issued the delete for i, whether read_sms gave a record or
\* not.
C26_DeleteWhateverRead ==
  (RnmReturned /\ Listed(sms.rec, "REC")) => Written(CmdDelete(ListedIndex(sms.rec))) = 1

====
